---- MODULE Spec2Model ----
(***************************************************************************)
(* MyRUG (src/myrug.py): the schema comparator and migration planner.      *)
(*                                                                         *)
(* A SchemaComparator is built from a source schema (the wanted state), a  *)
(* destination schema (the current state) and a destructive flag; its      *)
(* generate_migration_plan method collects MigrationSteps from the trigger,*)
(* view, table and procedure comparisons and sorts them by stage.          *)
(*                                                                         *)
(* Representation.                                                         *)
(*  - Identifiers, engines, charsets, defaults, comments and SQL bodies    *)
(*    are strings that the code only compares and interpolates: they are   *)
(*    TLA+ strings.                                                        *)
(*  - data_type and extra are strings whose characters the code looks at   *)
(*    (upper(), lower(), re.match, substring tests): they are sequences    *)
(*    of one-character strings.                                            *)
(*  - An f-string is the sequence of its pieces, literal text and          *)
(*    interpolated values in order; its value is their concatenation.      *)
(*  - Python's None is the value None below; no string of a schema is      *)
(*    equal to it.                                                         *)
(*  - Iterating a Python set of strings visits them in an order fixed by   *)
(*    the process's string hashes (randomised per process, PYTHONHASHSEED):*)
(*    the variable order gives, for every set of names, the order in which *)
(*    the running process visits it.                                       *)
(***************************************************************************)
EXTENDS Integers, Sequences, FiniteSets, TLC

VARIABLES
    source,           \* SchemaComparator.source
    destination,      \* SchemaComparator.destination
    destructive,      \* SchemaComparator.destructive
    migration_steps,  \* SchemaComparator.migration_steps
    warnings,         \* SchemaComparator.warnings
    order,            \* iteration order of string sets in this process
    include,          \* include_* arguments of the latest call (once calls > 0)
    calls,            \* number of generate_migration_plan calls on this object
    finished,         \* the plans returned in earlier runs over the same schemas
    returned,         \* the lists this object's calls have returned, as the
                      \* caller holding them sees them now
    lossy_call,       \* a call of _is_lossy_column_change made on its own:
                      \* <<>>, or <<old_col, new_col>> and then its result
    validate_call,    \* a call of SchemaValidator._validate_table made on its
                      \* own: <<>>, or <<table>> and then its result
    args,             \* migrate_command: the parsed command-line arguments
    pc,               \* migrate_command: the statement the command is at
    events,           \* migrate_command: what the command has done to the
                      \* outside (script, connection, cursor), in order
    exit_status       \* migrate_command: <<>>, or the status the process
                      \* ended with

vars == <<source, destination, destructive, migration_steps, warnings,
          order, include, calls, finished, returned, lossy_call, validate_call,
          args, pc, events, exit_status>>

\* the variables of migrate_command
commandVars == <<args, pc, events, exit_status>>

-----------------------------------------------------------------------------
(* Enums *)

INFO == "INFO"
WARNING == "WARNING"
ERROR == "ERROR"

DROP_TRIGGERS == 1
DROP_VIEWS == 2
DROP_FOREIGN_KEYS == 3
DROP_INDEXES == 4
DROP_COLUMNS == 5
DROP_TABLES == 6
CREATE_TABLES == 7
ADD_COLUMNS == 8
MODIFY_COLUMNS == 9
CREATE_INDEXES == 10
CREATE_FOREIGN_KEYS == 11
CREATE_VIEWS == 12
CREATE_PROCEDURES == 13
CREATE_TRIGGERS == 14

MigrationStage == DROP_TRIGGERS .. CREATE_TRIGGERS

-----------------------------------------------------------------------------
(* Python values *)

None == "<None>"

\* bool(s) of an Optional[str]
Truthy(s) == s # None /\ s # ""

\* bool(s) of a str held as a character sequence
TruthyChars(s) == s # <<>>

\* sequence helpers
RECURSIVE Flatten(_)
Flatten(ss) == IF ss = <<>> THEN <<>> ELSE Head(ss) \o Flatten(Tail(ss))

Range(s) == {s[i] : i \in DOMAIN s}

\* A Python set of strings is held as the sequence in which its elements
\* were inserted.  "for x in S" visits them in the order ord gives for that
\* sequence: string hashes are seeded per process, and two names that fall
\* in the same slot of the table are visited in an order that depends on
\* which of them was inserted first.
Iterate(S, ord) == ord[S]

\* so - other (set_difference, for a set so of fewer than four elements):
\* a new set, into which the elements of so that other lacks are inserted
\* in the order in which so is visited
Difference(so, other, ord) ==
    LET lacking(x) == x \notin Range(other)
    IN  SelectSeq(Iterate(so, ord), lacking)

\* so & other (set_intersection): a new set, into which the elements that
\* both hold are inserted in the order in which other is visited, or so
\* when other is the larger of the two
Intersection(so, other, ord) ==
    LET visited == IF Len(other) > Len(so) THEN so ELSE other
        tested == IF Len(other) > Len(so) THEN other ELSE so
        held(x) == x \in Range(tested)
    IN  SelectSeq(Iterate(visited, ord), held)

\* d.keys() of d = {e.name: e for e in entities}: a name keeps the place of
\* its first entry
RECURSIVE KeysByName(_)
KeysByName(entities) ==
    IF entities = <<>> THEN <<>>
    ELSE LET front == KeysByName(SubSeq(entities, 1, Len(entities) - 1))
             name == entities[Len(entities)].name
         IN  IF name \in Range(front) THEN front ELSE Append(front, name)

\* {e.name: e for e in entities}: a later entry of the same name replaces
\* an earlier one
DictByName(entities) ==
    [n \in {entities[i].name : i \in DOMAIN entities} |->
        LET last == CHOOSE i \in DOMAIN entities :
                       /\ entities[i].name = n
                       /\ \A j \in DOMAIN entities :
                             entities[j].name = n => j <= i
        IN  entities[last]]

-----------------------------------------------------------------------------
(* Characters: str.upper(), str.lower(), substring test, \d, int() *)

LowerLetters == <<"a","b","c","d","e","f","g","h","i","j","k","l","m",
                  "n","o","p","q","r","s","t","u","v","w","x","y","z">>
UpperLetters == <<"A","B","C","D","E","F","G","H","I","J","K","L","M",
                  "N","O","P","Q","R","S","T","U","V","W","X","Y","Z">>
Digits == <<"0","1","2","3","4","5","6","7","8","9">>

IndexOf(c, alphabet) ==
    IF \E i \in DOMAIN alphabet : alphabet[i] = c
    THEN CHOOSE i \in DOMAIN alphabet : alphabet[i] = c
    ELSE 0

UpperChar(c) ==
    IF IndexOf(c, LowerLetters) # 0 THEN UpperLetters[IndexOf(c, LowerLetters)] ELSE c

LowerChar(c) ==
    IF IndexOf(c, UpperLetters) # 0 THEN LowerLetters[IndexOf(c, UpperLetters)] ELSE c

\* s.upper()
Upper(s) == [i \in DOMAIN s |-> UpperChar(s[i])]

\* s.lower()
Lower(s) == [i \in DOMAIN s |-> LowerChar(s[i])]

\* s startswith p at position i (1-based)
MatchesAt(s, p, i) ==
    /\ i + Len(p) - 1 <= Len(s)
    /\ \A k \in DOMAIN p : s[i + k - 1] = p[k]

\* p in s
Contains(s, p) == \E i \in 1 .. (Len(s) + 1) : MatchesAt(s, p, i)

IsDigit(c) == IndexOf(c, Digits) # 0

\* the end (exclusive) of the longest run of digits of s that starts at i
RECURSIVE DigitsEnd(_, _)
DigitsEnd(s, i) ==
    IF i <= Len(s) /\ IsDigit(s[i]) THEN DigitsEnd(s, i + 1) ELSE i

\* int(s[i:j]) for a run of digits
RECURSIVE IntOf(_, _, _)
IntOf(s, i, j) ==
    IF i >= j THEN 0
    ELSE IntOf(s, i, j - 1) * 10 + (IndexOf(s[j - 1], Digits) - 1)

-----------------------------------------------------------------------------
(* Data model: field-level equality *)

\* columns compared in every field, the comment too
ColumnEq_with_comment(self, other) ==
    /\ self.name = other.name
    /\ Upper(self.data_type) = Upper(other.data_type)
    /\ self.is_nullable = other.is_nullable
    /\ self.default = other.default
    /\ self.extra = other.extra
    /\ self.character_set = other.character_set
    /\ self.collation = other.collation
    /\ self.comment = other.comment

\* Column.__eq__
ColumnEq(self, other) ==
    /\ self.name = other.name
    /\ Upper(self.data_type) = Upper(other.data_type)
    /\ self.is_nullable = other.is_nullable
    /\ self.default = other.default
    /\ self.extra = other.extra
    /\ self.character_set = other.character_set
    /\ self.collation = other.collation

\* indexes compared by the set of their columns
IndexEq_unordered(self, other) ==
    /\ self.name = other.name
    /\ Range(self.columns) = Range(other.columns)
    /\ self.is_unique = other.is_unique
    /\ self.index_type = other.index_type

\* Index.__eq__
IndexEq(self, other) ==
    /\ self.name = other.name
    /\ self.columns = other.columns
    /\ self.is_unique = other.is_unique
    /\ self.index_type = other.index_type

\* ForeignKey.__eq__
ForeignKeyEq(self, other) ==
    /\ self.columns = other.columns
    /\ self.referenced_table = other.referenced_table
    /\ self.referenced_columns = other.referenced_columns
    /\ self.on_delete = other.on_delete
    /\ self.on_update = other.on_update

\* Warning(level, message, context)
Warning(level, message, context) ==
    [level |-> level, message |-> message, context |-> context]

\* MigrationStep(stage, sql, description), warnings = []
MigrationStep(stage, sql, description) ==
    [stage |-> stage, sql |-> sql, description |-> description, warnings |-> <<>>]

-----------------------------------------------------------------------------
(* Text pieces shared by the SQL builders *)

\* sep.join(parts), each part and sep a sequence of pieces
RECURSIVE Join(_, _)
Join(parts, sep) ==
    IF parts = <<>> THEN <<>>
    ELSE IF Len(parts) = 1 THEN parts[1]
    ELSE parts[1] \o sep \o Join(Tail(parts), sep)

\* the backquote character of the SQL text (a TLA+ string cannot hold it)
BQ == "<backquote>"

\* an identifier between backquotes
Quoted(name) == <<BQ, name, BQ>>

\* ", ".join(quoted col for col in cols)
QuotedList(cols) == Join([i \in DOMAIN cols |-> Quoted(cols[i])], <<", ">>)

\* the column definition text built in _generate_create_table,
\* _generate_add_column and _generate_modify_column, after the indentation open
ColumnDefinition(open, column) ==
    open \o Quoted(column.name) \o <<" ">> \o column.data_type
    \o (IF Truthy(column.character_set)
        THEN <<" CHARACTER SET ", column.character_set>> ELSE <<>>)
    \o (IF Truthy(column.collation)
        THEN <<" COLLATE ", column.collation>> ELSE <<>>)
    \o (IF ~column.is_nullable THEN <<" NOT NULL">> ELSE <<" NULL">>)
    \o (IF column.default # None THEN <<" DEFAULT ", column.default>> ELSE <<>>)
    \o (IF TruthyChars(column.extra) THEN <<" ">> \o column.extra ELSE <<>>)
    \o (IF column.comment # "" THEN <<" COMMENT '", column.comment, "'">> ELSE <<>>)

auto_increment == <<"a","u","t","o","_","i","n","c","r","e","m","e","n","t">>

\* the check with extra compared as written, not in lower case
NotNullWithoutDefault_case_sensitive(column) ==
    /\ ~column.is_nullable
    /\ column.default = None
    /\ ~Contains(column.extra, <<"a","u","t","o","_","i","n","c","r","e","m","e","n","t">>)

\* not column.is_nullable and column.default is None
\*     and 'auto_increment' not in column.extra.lower()
NotNullWithoutDefault(column) ==
    /\ ~column.is_nullable
    /\ column.default = None
    /\ ~Contains(Lower(column.extra), auto_increment)

-----------------------------------------------------------------------------
(* SchemaValidator *)

\* the primary key looked at only when every column passes
validate_table_first_rule_only(table) ==
    LET columnWarning(column) ==
            IF NotNullWithoutDefault(column)
            THEN << Warning(WARNING,
                      <<"Column '", column.name,
                        "' cannot be NULL and has no default value. ",
                        "Adding this column to a table with existing data will fail.">>,
                      <<"Table: ", table.name>>) >>
            ELSE <<>>
        fkWarning(fk) ==
            IF Len(fk.columns) # Len(fk.referenced_columns)
            THEN << Warning(ERROR,
                      <<"Foreign key '", fk.name, "' has mismatched column counts.">>,
                      <<"Table: ", table.name>>) >>
            ELSE <<>>
        columnWarnings ==
            Flatten([i \in DOMAIN table.columns |-> columnWarning(table.columns[i])])
    IN  columnWarnings
        \o (IF table.primary_key = <<>> /\ columnWarnings = <<>>
            THEN << Warning(INFO, <<"Table has no primary key defined.">>,
                            <<"Table: ", table.name>>) >>
            ELSE <<>>)
        \o Flatten([i \in DOMAIN table.foreign_keys |-> fkWarning(table.foreign_keys[i])])

\* SchemaValidator._validate_table
validate_table(table) ==
    LET columnWarning(column) ==
            IF NotNullWithoutDefault(column)
            THEN << Warning(WARNING,
                      <<"Column '", column.name,
                        "' cannot be NULL and has no default value. ",
                        "Adding this column to a table with existing data will fail.">>,
                      <<"Table: ", table.name>>) >>
            ELSE <<>>
        fkWarning(fk) ==
            IF Len(fk.columns) # Len(fk.referenced_columns)
            THEN << Warning(ERROR,
                      <<"Foreign key '", fk.name, "' has mismatched column counts.">>,
                      <<"Table: ", table.name>>) >>
            ELSE <<>>
    IN  Flatten([i \in DOMAIN table.columns |-> columnWarning(table.columns[i])])
        \o (IF table.primary_key = <<>>
            THEN << Warning(INFO, <<"Table has no primary key defined.">>,
                            <<"Table: ", table.name>>) >>
            ELSE <<>>)
        \o Flatten([i \in DOMAIN table.foreign_keys |-> fkWarning(table.foreign_keys[i])])

\* SchemaValidator.validate_schema; the tables are visited in dict order
validate_schema(schema) ==
    Flatten([i \in DOMAIN schema.keys.tables |->
                validate_table(schema.tables[schema.keys.tables[i]])])

-----------------------------------------------------------------------------
(* SchemaComparator: tables *)

\* step.warnings.append / step.warnings.extend
WithWarnings(step, ws) == [step EXCEPT !.warnings = @ \o ws]

\* a table dropped without a warning
generate_drop_table_silent(table_name) ==
    << MigrationStep(DROP_TABLES,
           <<"DROP TABLE IF EXISTS ">> \o Quoted(table_name) \o <<";">>,
           <<"Drop table '", table_name, "'">>) >>

\* SchemaComparator._generate_drop_table
generate_drop_table(table_name) ==
    << WithWarnings(
         MigrationStep(DROP_TABLES,
             <<"DROP TABLE IF EXISTS ">> \o Quoted(table_name) \o <<";">>,
             <<"Drop table '", table_name, "'">>),
         << Warning(WARNING,
                <<"Dropping table '", table_name, "' will delete all its data.">>,
                <<"Table: ", table_name>>) >>) >>

\* the foreign key clause text shared by CREATE TABLE and ADD CONSTRAINT
ForeignKeyClause(name, fk) ==
    Quoted(name) \o <<" FOREIGN KEY (">> \o QuotedList(fk.columns)
    \o <<") REFERENCES ">> \o Quoted(fk.referenced_table)
    \o <<" (">> \o QuotedList(fk.referenced_columns) \o <<") ">>
    \o <<"ON DELETE ", fk.on_delete, " ON UPDATE ", fk.on_update>>

\* the index clause text shared by CREATE TABLE and ADD INDEX
IndexClause(index) ==
    (IF index.is_unique THEN <<"UNIQUE ">> ELSE <<>>)
    \o <<"INDEX ">> \o Quoted(index.name) \o <<" (">> \o QuotedList(index.columns)
    \o <<") USING ", index.index_type>>

\* the SQL text of SchemaComparator._generate_create_table
CreateTableSql(table) ==
    <<"CREATE TABLE ">> \o Quoted(table.name) \o <<" (">>
    \o Join([i \in DOMAIN table.columns |->
                ColumnDefinition(<<"  ">>, table.columns[i])], <<",\n">>)
    \o (IF table.primary_key # <<>>
        THEN <<",\n  PRIMARY KEY (">> \o QuotedList(table.primary_key) \o <<")">>
        ELSE <<>>)
    \o Flatten([i \in DOMAIN table.indexes |->
                <<",\n  ">> \o IndexClause(table.indexes[i])])
    \o Flatten([i \in DOMAIN table.foreign_keys |->
                <<",\n  CONSTRAINT ">>
                \o ForeignKeyClause(table.foreign_keys[i].name, table.foreign_keys[i])])
    \o <<"\n)">>
    \o <<" ENGINE=", table.engine>>
    \o (IF Truthy(table.charset) THEN <<" DEFAULT CHARSET=", table.charset>> ELSE <<>>)
    \o (IF Truthy(table.collation) THEN <<" COLLATE=", table.collation>> ELSE <<>>)
    \o (IF table.comment # "" THEN <<" COMMENT='", table.comment, "'">> ELSE <<>>)
    \o <<";">>

\* a table created without running it through the Validator
generate_create_table_unvalidated(table) ==
    << MigrationStep(CREATE_TABLES, CreateTableSql(table),
                     <<"Create table '", table.name, "'">>) >>

\* SchemaComparator._generate_create_table
generate_create_table(table) ==
    << WithWarnings(
         MigrationStep(CREATE_TABLES, CreateTableSql(table),
                       <<"Create table '", table.name, "'">>),
         validate_table(table)) >>

\* SchemaComparator._generate_add_column
generate_add_column(table_name, column) ==
    << WithWarnings(
         MigrationStep(ADD_COLUMNS,
             <<"ALTER TABLE ">> \o Quoted(table_name) \o <<" ADD COLUMN ">>
             \o ColumnDefinition(<<>>, column) \o <<";">>,
             <<"Add column '", column.name, "' to table '", table_name, "'">>),
         IF NotNullWithoutDefault(column)
         THEN << Warning(WARNING,
                   <<"Adding NOT NULL column '", column.name,
                     "' without a default value ",
                     "will fail if the table contains data.">>,
                   <<"Table: ", table_name>>) >>
         ELSE <<>>) >>

\* re.match(r'(VAR)?CHAR\((\d+)\)', s): int(group(2)), or -1 without a match
VarcharSize(s) ==
    LET VAR == <<"V","A","R">>
        CHARP == <<"C","H","A","R","(">>
        p == IF MatchesAt(s, VAR, 1) THEN 4 ELSE 1
        d == p + Len(CHARP)
        e == DigitsEnd(s, d)
    IN  IF MatchesAt(s, CHARP, p) /\ e > d /\ MatchesAt(s, <<")">>, e)
        THEN IntOf(s, d, e) ELSE -1

\* re.match(r'DECIMAL\((\d+),(\d+)\)', s): int(group(1)), or -1 without a match
DecimalPrecision(s) ==
    LET DECIMALP == <<"D","E","C","I","M","A","L","(">>
        d == 1 + Len(DECIMALP)
        e == DigitsEnd(s, d)
        f == DigitsEnd(s, e + 1)
    IN  IF /\ MatchesAt(s, DECIMALP, 1) /\ e > d /\ MatchesAt(s, <<",">>, e)
           /\ f > e + 1 /\ MatchesAt(s, <<")">>, f)
        THEN IntOf(s, d, e) ELSE -1

T_TEXT == <<"T","E","X","T">>
T_VARCHAR == <<"V","A","R","C","H","A","R">>
T_CHAR == <<"C","H","A","R">>
T_BIGINT == <<"B","I","G","I","N","T">>
T_INT == <<"I","N","T">>
T_MEDIUMINT == <<"M","E","D","I","U","M","I","N","T">>
T_SMALLINT == <<"S","M","A","L","L","I","N","T">>
T_TINYINT == <<"T","I","N","Y","I","N","T">>
T_FLOAT == <<"F","L","O","A","T">>
T_DECIMAL == <<"D","E","C","I","M","A","L">>
T_DOUBLE == <<"D","O","U","B","L","E">>

\* the lossy_conversions table of _is_lossy_column_change: (from, to types)
lossy_conversions ==
    << <<T_TEXT, <<T_VARCHAR, T_CHAR>> >>,
       <<T_BIGINT, <<T_INT, T_MEDIUMINT, T_SMALLINT, T_TINYINT>> >>,
       <<T_INT, <<T_MEDIUMINT, T_SMALLINT, T_TINYINT>> >>,
       <<T_FLOAT, <<T_DECIMAL>> >>,
       <<T_DOUBLE, <<T_FLOAT, T_DECIMAL>> >> >>

\* the sizes and precisions compared as text, not as numbers
is_lossy_column_change_lexical(old_col, new_col) ==
    LET old_type == Upper(old_col.data_type)
        new_type == Upper(new_col.data_type)
        FirstDigit(s, d) == IndexOf(s[d], Digits)
    IN  \/ /\ VarcharSize(old_type) # -1
           /\ VarcharSize(new_type) # -1
           /\ FirstDigit(new_type, IF MatchesAt(new_type, <<"V">>, 1) THEN 9 ELSE 6)
                < FirstDigit(old_type, IF MatchesAt(old_type, <<"V">>, 1) THEN 9 ELSE 6)
        \/ /\ DecimalPrecision(old_type) # -1
           /\ DecimalPrecision(new_type) # -1
           /\ FirstDigit(new_type, 9) < FirstDigit(old_type, 9)
        \/ \E i \in DOMAIN lossy_conversions :
              /\ Contains(old_type, lossy_conversions[i][1])
              /\ \E j \in DOMAIN lossy_conversions[i][2] :
                    Contains(new_type, lossy_conversions[i][2][j])

\* SchemaComparator._is_lossy_column_change
is_lossy_column_change(old_col, new_col) ==
    LET old_type == Upper(old_col.data_type)
        new_type == Upper(new_col.data_type)
    IN  \/ /\ VarcharSize(old_type) # -1
           /\ VarcharSize(new_type) # -1
           /\ VarcharSize(new_type) < VarcharSize(old_type)
        \/ /\ DecimalPrecision(old_type) # -1
           /\ DecimalPrecision(new_type) # -1
           /\ DecimalPrecision(new_type) < DecimalPrecision(old_type)
        \/ \E i \in DOMAIN lossy_conversions :
              /\ Contains(old_type, lossy_conversions[i][1])
              /\ \E j \in DOMAIN lossy_conversions[i][2] :
                    Contains(new_type, lossy_conversions[i][2][j])

\* the data-loss heuristic applied from the source type to the destination type
generate_modify_column_reversed(table_name, source_col, dest_col) ==
    << WithWarnings(
         MigrationStep(MODIFY_COLUMNS,
             <<"ALTER TABLE ">> \o Quoted(table_name) \o <<" MODIFY COLUMN ">>
             \o ColumnDefinition(<<>>, source_col) \o <<";">>,
             <<"Modify column '", source_col.name, "' in table '", table_name, "'">>),
         (IF is_lossy_column_change(source_col, dest_col)
          THEN << Warning(WARNING,
                    <<"Changing column '", source_col.name, "' from ">>
                    \o dest_col.data_type \o <<" to ">> \o source_col.data_type
                    \o <<" may cause data loss.">>,
                    <<"Table: ", table_name>>) >>
          ELSE <<>>)
         \o
         (IF dest_col.is_nullable /\ ~source_col.is_nullable
          THEN << Warning(WARNING,
                    <<"Changing column '", source_col.name, "' from NULL to NOT NULL ",
                      "will fail if NULL values exist.">>,
                    <<"Table: ", table_name>>) >>
          ELSE <<>>)) >>

\* the NULL to NOT NULL warning attached only to a step without the
\* data-loss warning
generate_modify_column_one_warning(table_name, source_col, dest_col) ==
    << WithWarnings(
         MigrationStep(MODIFY_COLUMNS,
             <<"ALTER TABLE ">> \o Quoted(table_name) \o <<" MODIFY COLUMN ">>
             \o ColumnDefinition(<<>>, source_col) \o <<";">>,
             <<"Modify column '", source_col.name, "' in table '", table_name, "'">>),
         IF is_lossy_column_change(dest_col, source_col)
         THEN << Warning(WARNING,
                   <<"Changing column '", source_col.name, "' from ">>
                   \o dest_col.data_type \o <<" to ">> \o source_col.data_type
                   \o <<" may cause data loss.">>,
                   <<"Table: ", table_name>>) >>
         ELSE IF dest_col.is_nullable /\ ~source_col.is_nullable
         THEN << Warning(WARNING,
                   <<"Changing column '", source_col.name, "' from NULL to NOT NULL ",
                     "will fail if NULL values exist.">>,
                   <<"Table: ", table_name>>) >>
         ELSE <<>>) >>

\* SchemaComparator._generate_modify_column
generate_modify_column(table_name, source_col, dest_col) ==
    << WithWarnings(
         MigrationStep(MODIFY_COLUMNS,
             <<"ALTER TABLE ">> \o Quoted(table_name) \o <<" MODIFY COLUMN ">>
             \o ColumnDefinition(<<>>, source_col) \o <<";">>,
             <<"Modify column '", source_col.name, "' in table '", table_name, "'">>),
         (IF is_lossy_column_change(dest_col, source_col)
          THEN << Warning(WARNING,
                    <<"Changing column '", source_col.name, "' from ">>
                    \o dest_col.data_type \o <<" to ">> \o source_col.data_type
                    \o <<" may cause data loss.">>,
                    <<"Table: ", table_name>>) >>
          ELSE <<>>)
         \o
         (IF dest_col.is_nullable /\ ~source_col.is_nullable
          THEN << Warning(WARNING,
                    <<"Changing column '", source_col.name, "' from NULL to NOT NULL ",
                      "will fail if NULL values exist.">>,
                    <<"Table: ", table_name>>) >>
          ELSE <<>>)) >>

\* columns of the destination alone dropped whatever the destructive flag
compare_columns_ungated(source_table, dest_table, destr, ord) ==
    LET source_cols == DictByName(source_table.columns)
        dest_cols == DictByName(dest_table.columns)
        dropStep(col_name) ==
            << WithWarnings(
                 MigrationStep(DROP_COLUMNS,
                     <<"ALTER TABLE ">> \o Quoted(source_table.name)
                     \o <<" DROP COLUMN ">> \o Quoted(col_name) \o <<";">>,
                     <<"Drop column '", col_name, "' from table '",
                       source_table.name, "'">>),
                 << Warning(WARNING,
                        <<"Dropping column '", col_name, "' will delete all its data.">>,
                        <<"Table: ", source_table.name>>) >>) >>
        to_drop == Iterate(Difference(KeysByName(dest_table.columns), KeysByName(source_table.columns), ord), ord)
        to_add == Iterate(Difference(KeysByName(source_table.columns), KeysByName(dest_table.columns), ord), ord)
        common == Iterate(Intersection(KeysByName(source_table.columns), KeysByName(dest_table.columns), ord), ord)
    IN  Flatten([i \in DOMAIN to_drop |-> dropStep(to_drop[i])])
        \o Flatten([i \in DOMAIN to_add |->
                      generate_add_column(source_table.name, source_cols[to_add[i]])])
        \o Flatten([i \in DOMAIN common |->
                      IF ~ColumnEq(source_cols[common[i]], dest_cols[common[i]])
                      THEN generate_modify_column(source_table.name,
                               source_cols[common[i]], dest_cols[common[i]])
                      ELSE <<>>])

\* SchemaComparator._compare_columns
compare_columns(source_table, dest_table, destr, ord) ==
    LET source_cols == DictByName(source_table.columns)
        dest_cols == DictByName(dest_table.columns)
        source_col_names == KeysByName(source_table.columns)
        dest_col_names == KeysByName(dest_table.columns)
        dropStep(col_name) ==
            << WithWarnings(
                 MigrationStep(DROP_COLUMNS,
                     <<"ALTER TABLE ">> \o Quoted(source_table.name)
                     \o <<" DROP COLUMN ">> \o Quoted(col_name) \o <<";">>,
                     <<"Drop column '", col_name, "' from table '",
                       source_table.name, "'">>),
                 << Warning(WARNING,
                        <<"Dropping column '", col_name, "' will delete all its data.">>,
                        <<"Table: ", source_table.name>>) >>) >>
        to_drop == Iterate(Difference(dest_col_names, source_col_names, ord), ord)
        to_add == Iterate(Difference(source_col_names, dest_col_names, ord), ord)
        common == Iterate(Intersection(source_col_names, dest_col_names, ord), ord)
    IN  (IF destr
         THEN Flatten([i \in DOMAIN to_drop |-> dropStep(to_drop[i])])
         ELSE <<>>)
        \o Flatten([i \in DOMAIN to_add |->
                      generate_add_column(source_table.name, source_cols[to_add[i]])])
        \o Flatten([i \in DOMAIN common |->
                      IF ~ColumnEq(source_cols[common[i]], dest_cols[common[i]])
                      THEN generate_modify_column(source_table.name,
                               source_cols[common[i]], dest_cols[common[i]])
                      ELSE <<>>])

\* SchemaComparator._compare_indexes
compare_indexes(source_table, dest_table, destr, ord) ==
    LET source_indexes == DictByName(source_table.indexes)
        dest_indexes == DictByName(dest_table.indexes)
        source_idx_names == KeysByName(source_table.indexes)
        dest_idx_names == KeysByName(dest_table.indexes)
        dropSql(idx_name) ==
            <<"ALTER TABLE ">> \o Quoted(source_table.name)
            \o <<" DROP INDEX ">> \o Quoted(idx_name) \o <<";">>
        to_drop == Iterate(Difference(dest_idx_names, source_idx_names, ord), ord)
        to_create == Iterate(source_idx_names, ord)
        createOrModify(idx_name) ==
            IF \/ idx_name \notin Range(dest_idx_names)
               \/ ~IndexEq(source_indexes[idx_name], dest_indexes[idx_name])
            THEN (IF idx_name \in Range(dest_idx_names)
                  THEN << MigrationStep(DROP_INDEXES, dropSql(idx_name),
                            <<"Drop index '", idx_name, "' from table '",
                              source_table.name, "' (will be recreated)">>) >>
                  ELSE <<>>)
                 \o << MigrationStep(CREATE_INDEXES,
                         <<"ALTER TABLE ">> \o Quoted(source_table.name) \o <<" ADD ">>
                         \o IndexClause(source_indexes[idx_name]) \o <<";">>,
                         <<"Create index '", idx_name, "' on table '",
                           source_table.name, "'">>) >>
            ELSE <<>>
    IN  (IF destr
         THEN [i \in DOMAIN to_drop |->
                 MigrationStep(DROP_INDEXES, dropSql(to_drop[i]),
                     <<"Drop index '", to_drop[i], "' from table '",
                       source_table.name, "'">>)]
         ELSE <<>>)
        \o Flatten([i \in DOMAIN to_create |-> createOrModify(to_create[i])])

\* an added foreign key checked for differing column counts as the Validator
\* checks those of a new table
compare_foreign_keys_validated(source_table, dest_table, destr, ord) ==
    LET source_fks == DictByName(source_table.foreign_keys)
        dest_fks == DictByName(dest_table.foreign_keys)
        source_fk_names == KeysByName(source_table.foreign_keys)
        dest_fk_names == KeysByName(dest_table.foreign_keys)
        dropSql(fk_name) ==
            <<"ALTER TABLE ">> \o Quoted(source_table.name)
            \o <<" DROP FOREIGN KEY ">> \o Quoted(fk_name) \o <<";">>
        to_drop == Iterate(Difference(dest_fk_names, source_fk_names, ord), ord)
        to_create == Iterate(source_fk_names, ord)
        createOrModify(fk_name) ==
            IF \/ fk_name \notin Range(dest_fk_names)
               \/ ~ForeignKeyEq(source_fks[fk_name], dest_fks[fk_name])
            THEN (IF fk_name \in Range(dest_fk_names)
                  THEN << MigrationStep(DROP_FOREIGN_KEYS, dropSql(fk_name),
                            <<"Drop foreign key '", fk_name, "' from table '",
                              source_table.name, "' (will be recreated)">>) >>
                  ELSE <<>>)
                 \o << WithWarnings(
                         MigrationStep(CREATE_FOREIGN_KEYS,
                           <<"ALTER TABLE ">> \o Quoted(source_table.name)
                           \o <<" ADD CONSTRAINT ">>
                           \o ForeignKeyClause(fk_name, source_fks[fk_name]) \o <<";">>,
                           <<"Create foreign key '", fk_name, "' on table '",
                             source_table.name, "'">>),
                         IF Len(source_fks[fk_name].columns)
                              # Len(source_fks[fk_name].referenced_columns)
                         THEN << Warning(ERROR,
                                   <<"Foreign key '", fk_name,
                                     "' has mismatched column counts.">>,
                                   <<"Table: ", source_table.name>>) >>
                         ELSE <<>>) >>
            ELSE <<>>
    IN  (IF destr
         THEN [i \in DOMAIN to_drop |->
                 MigrationStep(DROP_FOREIGN_KEYS, dropSql(to_drop[i]),
                     <<"Drop foreign key '", to_drop[i], "' from table '",
                       source_table.name, "'">>)]
         ELSE <<>>)
        \o Flatten([i \in DOMAIN to_create |-> createOrModify(to_create[i])])

\* SchemaComparator._compare_foreign_keys
compare_foreign_keys(source_table, dest_table, destr, ord) ==
    LET source_fks == DictByName(source_table.foreign_keys)
        dest_fks == DictByName(dest_table.foreign_keys)
        source_fk_names == KeysByName(source_table.foreign_keys)
        dest_fk_names == KeysByName(dest_table.foreign_keys)
        dropSql(fk_name) ==
            <<"ALTER TABLE ">> \o Quoted(source_table.name)
            \o <<" DROP FOREIGN KEY ">> \o Quoted(fk_name) \o <<";">>
        to_drop == Iterate(Difference(dest_fk_names, source_fk_names, ord), ord)
        to_create == Iterate(source_fk_names, ord)
        createOrModify(fk_name) ==
            IF \/ fk_name \notin Range(dest_fk_names)
               \/ ~ForeignKeyEq(source_fks[fk_name], dest_fks[fk_name])
            THEN (IF fk_name \in Range(dest_fk_names)
                  THEN << MigrationStep(DROP_FOREIGN_KEYS, dropSql(fk_name),
                            <<"Drop foreign key '", fk_name, "' from table '",
                              source_table.name, "' (will be recreated)">>) >>
                  ELSE <<>>)
                 \o << MigrationStep(CREATE_FOREIGN_KEYS,
                         <<"ALTER TABLE ">> \o Quoted(source_table.name)
                         \o <<" ADD CONSTRAINT ">>
                         \o ForeignKeyClause(fk_name, source_fks[fk_name]) \o <<";">>,
                         <<"Create foreign key '", fk_name, "' on table '",
                           source_table.name, "'">>) >>
            ELSE <<>>
    IN  (IF destr
         THEN [i \in DOMAIN to_drop |->
                 MigrationStep(DROP_FOREIGN_KEYS, dropSql(to_drop[i]),
                     <<"Drop foreign key '", to_drop[i], "' from table '",
                       source_table.name, "'">>)]
         ELSE <<>>)
        \o Flatten([i \in DOMAIN to_create |-> createOrModify(to_create[i])])

\* table options rewritten whenever the source names them
compare_table_options_unconditional(source_table, dest_table) ==
    LET changes ==
            << <<"ENGINE=", source_table.engine>>,
               IF Truthy(source_table.charset)
               THEN <<"DEFAULT CHARSET=", source_table.charset>> ELSE <<>> >>
        made == SelectSeq(changes, LAMBDA c : c # <<>>)
    IN  << MigrationStep(MODIFY_COLUMNS,
             <<"ALTER TABLE ">> \o Quoted(source_table.name) \o <<" ">>
             \o Join(made, <<" ">>) \o <<";">>,
             <<"Update table options for '", source_table.name, "'">>) >>

\* SchemaComparator._compare_table_options
compare_table_options(source_table, dest_table) ==
    LET changes ==
            << IF source_table.engine # dest_table.engine
               THEN <<"ENGINE=", source_table.engine>> ELSE <<>>,
               IF Truthy(source_table.charset) /\ source_table.charset # dest_table.charset
               THEN <<"DEFAULT CHARSET=", source_table.charset>> ELSE <<>>,
               IF Truthy(source_table.collation)
                    /\ source_table.collation # dest_table.collation
               THEN <<"COLLATE=", source_table.collation>> ELSE <<>>,
               IF source_table.comment # dest_table.comment
               THEN <<"COMMENT='", source_table.comment, "'">> ELSE <<>> >>
        made == SelectSeq(changes, LAMBDA c : c # <<>>)
    IN  IF made # <<>>
        THEN << MigrationStep(MODIFY_COLUMNS,
                  <<"ALTER TABLE ">> \o Quoted(source_table.name) \o <<" ">>
                  \o Join(made, <<" ">>) \o <<";">>,
                  <<"Update table options for '", source_table.name, "'">>) >>
        ELSE <<>>

\* SchemaComparator._compare_table_structure
compare_table_structure(source_table, dest_table, destr, ord) ==
    compare_foreign_keys(source_table, dest_table, destr, ord)
    \o compare_indexes(source_table, dest_table, destr, ord)
    \o compare_columns(source_table, dest_table, destr, ord)
    \o compare_table_options(source_table, dest_table)

\* SchemaComparator._compare_tables
compare_tables(src, dst, destr, ord) ==
    LET source_tables == src.keys.tables
        dest_tables == dst.keys.tables
        to_drop == Iterate(Difference(dest_tables, source_tables, ord), ord)
        to_create == Iterate(Difference(source_tables, dest_tables, ord), ord)
        common == Iterate(Intersection(source_tables, dest_tables, ord), ord)
    IN  (IF destr
         THEN Flatten([i \in DOMAIN to_drop |-> generate_drop_table(to_drop[i])])
         ELSE <<>>)
        \o Flatten([i \in DOMAIN to_create |->
                      generate_create_table(src.tables[to_create[i]])])
        \o Flatten([i \in DOMAIN common |->
                      compare_table_structure(src.tables[common[i]],
                          dst.tables[common[i]], destr, ord)])

-----------------------------------------------------------------------------
(* SchemaComparator: views, procedures, triggers *)

\* views created only when new or of another definition
compare_views_changed_only(src, dst, destr, ord) ==
    LET to_drop == Iterate(Difference(dst.keys.views, src.keys.views, ord), ord)
        to_create == Iterate(src.keys.views, ord)
        changed(v) == v \notin DOMAIN dst.views
                        \/ src.views[v].definition # dst.views[v].definition
    IN  (IF destr
         THEN [i \in DOMAIN to_drop |->
                 MigrationStep(DROP_VIEWS,
                     <<"DROP VIEW IF EXISTS ">> \o Quoted(to_drop[i]) \o <<";">>,
                     <<"Drop view '", to_drop[i], "'">>)]
         ELSE <<>>)
        \o Flatten([i \in DOMAIN to_create |->
              IF changed(to_create[i])
              THEN << MigrationStep(CREATE_VIEWS,
                        <<"CREATE OR REPLACE VIEW ">> \o Quoted(to_create[i])
                        \o <<" AS ", src.views[to_create[i]].definition, ";">>,
                        <<"Create or replace view '", to_create[i], "'">>) >>
              ELSE <<>>])

\* views of the destination alone dropped whatever the destructive flag
compare_views_ungated(src, dst, destr, ord) ==
    LET to_drop == Iterate(Difference(dst.keys.views, src.keys.views, ord), ord)
        to_create == Iterate(src.keys.views, ord)
    IN  [i \in DOMAIN to_drop |->
            MigrationStep(DROP_VIEWS,
                <<"DROP VIEW IF EXISTS ">> \o Quoted(to_drop[i]) \o <<";">>,
                <<"Drop view '", to_drop[i], "'">>)]
        \o [i \in DOMAIN to_create |->
              MigrationStep(CREATE_VIEWS,
                  <<"CREATE OR REPLACE VIEW ">> \o Quoted(to_create[i])
                  \o <<" AS ", src.views[to_create[i]].definition, ";">>,
                  <<"Create or replace view '", to_create[i], "'">>)]

\* SchemaComparator._compare_views
compare_views(src, dst, destr, ord) ==
    LET source_views == src.keys.views
        dest_views == dst.keys.views
        to_drop == Iterate(Difference(dest_views, source_views, ord), ord)
        to_create == Iterate(source_views, ord)
    IN  (IF destr
         THEN [i \in DOMAIN to_drop |->
                 MigrationStep(DROP_VIEWS,
                     <<"DROP VIEW IF EXISTS ">> \o Quoted(to_drop[i]) \o <<";">>,
                     <<"Drop view '", to_drop[i], "'">>)]
         ELSE <<>>)
        \o [i \in DOMAIN to_create |->
              MigrationStep(CREATE_VIEWS,
                  <<"CREATE OR REPLACE VIEW ">> \o Quoted(to_create[i])
                  \o <<" AS ", src.views[to_create[i]].definition, ";">>,
                  <<"Create or replace view '", to_create[i], "'">>)]

\* SchemaComparator._compare_procedures
compare_procedures(src, dst, ord) ==
    LET source_procs == src.keys.procedures
        dest_procs == dst.keys.procedures
        to_create == Iterate(source_procs, ord)
        createOrReplace(proc_name) ==
            LET proc == src.procedures[proc_name]
            IN  (IF proc_name \in Range(dest_procs)
                 THEN << MigrationStep(CREATE_PROCEDURES,
                           <<"DROP ">> \o proc.type \o <<" IF EXISTS ">>
                           \o Quoted(proc_name) \o <<";">>,
                           <<"Drop ">> \o Lower(proc.type)
                           \o <<" '", proc_name, "' (will be recreated)">>) >>
                 ELSE <<>>)
                \o << MigrationStep(CREATE_PROCEDURES,
                        <<proc.definition, ";">>,
                        <<"Create ">> \o Lower(proc.type)
                        \o <<" '", proc_name, "'">>) >>
    IN  Flatten([i \in DOMAIN to_create |-> createOrReplace(to_create[i])])

\* every trigger of the destination dropped when destructive, those of the
\* source too
compare_triggers_drop_all(src, dst, destr, ord) ==
    LET to_drop == Iterate(dst.keys.triggers, ord)
        to_create == Iterate(src.keys.triggers, ord)
        dropSql(trigger_name) ==
            <<"DROP TRIGGER IF EXISTS ">> \o Quoted(trigger_name) \o <<";">>
        createOrReplace(trigger_name) ==
            LET trigger == src.triggers[trigger_name]
            IN  (IF trigger_name \in DOMAIN dst.triggers
                 THEN << MigrationStep(DROP_TRIGGERS, dropSql(trigger_name),
                           <<"Drop trigger '", trigger_name,
                             "' (will be recreated)">>) >>
                 ELSE <<>>)
                \o << MigrationStep(CREATE_TRIGGERS,
                        <<"CREATE TRIGGER ">> \o Quoted(trigger_name)
                        \o <<" ", trigger.timing, " ", trigger.event, " ON ">>
                        \o Quoted(trigger.table)
                        \o <<" FOR EACH ROW ", trigger.definition, ";">>,
                        <<"Create trigger '", trigger_name, "'">>) >>
    IN  (IF destr
         THEN [i \in DOMAIN to_drop |->
                 MigrationStep(DROP_TRIGGERS, dropSql(to_drop[i]),
                     <<"Drop trigger '", to_drop[i], "'">>)]
         ELSE <<>>)
        \o Flatten([i \in DOMAIN to_create |-> createOrReplace(to_create[i])])

\* SchemaComparator._compare_triggers
compare_triggers(src, dst, destr, ord) ==
    LET source_triggers == src.keys.triggers
        dest_triggers == dst.keys.triggers
        to_drop == Iterate(Difference(dest_triggers, source_triggers, ord), ord)
        to_create == Iterate(source_triggers, ord)
        dropSql(trigger_name) ==
            <<"DROP TRIGGER IF EXISTS ">> \o Quoted(trigger_name) \o <<";">>
        createOrReplace(trigger_name) ==
            LET trigger == src.triggers[trigger_name]
            IN  (IF trigger_name \in Range(dest_triggers)
                 THEN << MigrationStep(DROP_TRIGGERS, dropSql(trigger_name),
                           <<"Drop trigger '", trigger_name,
                             "' (will be recreated)">>) >>
                 ELSE <<>>)
                \o << MigrationStep(CREATE_TRIGGERS,
                        <<"CREATE TRIGGER ">> \o Quoted(trigger_name)
                        \o <<" ", trigger.timing, " ", trigger.event, " ON ">>
                        \o Quoted(trigger.table)
                        \o <<" FOR EACH ROW ", trigger.definition, ";">>,
                        <<"Create trigger '", trigger_name, "'">>) >>
    IN  (IF destr
         THEN [i \in DOMAIN to_drop |->
                 MigrationStep(DROP_TRIGGERS, dropSql(to_drop[i]),
                     <<"Drop trigger '", to_drop[i], "'">>)]
         ELSE <<>>)
        \o Flatten([i \in DOMAIN to_create |-> createOrReplace(to_create[i])])

-----------------------------------------------------------------------------
(* SchemaComparator.generate_migration_plan *)

\* a sort by stage that does not keep the order of collection within a stage
SortByStage_unstable(steps) ==
    LET reversed == [i \in DOMAIN steps |-> steps[Len(steps) + 1 - i]]
    IN  Flatten([st \in MigrationStage |->
                    SelectSeq(reversed, LAMBDA step : step.stage = st)])

\* the collected steps left in the order of collection
SortByStage_unsorted(steps) == steps

\* list.sort(key=lambda step: step.stage.value): a stable sort
SortByStage(steps) ==
    Flatten([st \in MigrationStage |->
                SelectSeq(steps, LAMBDA step : step.stage = st)])

\* the steps of the call collected after those the object already holds
generate_migration_plan_accumulating(steps, src, dst, destr, inc, ord) ==
    SortByStage(
        steps
        \o (IF inc.triggers THEN compare_triggers(src, dst, destr, ord) ELSE <<>>)
        \o (IF inc.views THEN compare_views(src, dst, destr, ord) ELSE <<>>)
        \o (IF inc.tables THEN compare_tables(src, dst, destr, ord) ELSE <<>>)
        \o (IF inc.procedures THEN compare_procedures(src, dst, ord) ELSE <<>>))

\* the value generate_migration_plan returns; steps is self.migration_steps
\* at entry, which the call replaces by a new empty list, and inc holds the
\* include_* flags
generate_migration_plan(steps, src, dst, destr, inc, ord) ==
    LET migration_steps_reset == <<>>
    IN  SortByStage(
            migration_steps_reset
            \o (IF inc.triggers THEN compare_triggers(src, dst, destr, ord) ELSE <<>>)
            \o (IF inc.views THEN compare_views(src, dst, destr, ord) ELSE <<>>)
            \o (IF inc.tables THEN compare_tables(src, dst, destr, ord) ELSE <<>>)
            \o (IF inc.procedures THEN compare_procedures(src, dst, ord) ELSE <<>>))

-----------------------------------------------------------------------------
(* Schema values *)

Column(name, data_type, is_nullable, default, extra, character_set, collation, comment) ==
    [name |-> name, data_type |-> data_type, is_nullable |-> is_nullable,
     default |-> default, extra |-> extra, character_set |-> character_set,
     collation |-> collation, comment |-> comment]

Index(name, columns, is_unique, index_type) ==
    [name |-> name, columns |-> columns, is_unique |-> is_unique,
     index_type |-> index_type]

ForeignKey(name, columns, referenced_table, referenced_columns, on_delete, on_update) ==
    [name |-> name, columns |-> columns, referenced_table |-> referenced_table,
     referenced_columns |-> referenced_columns, on_delete |-> on_delete,
     on_update |-> on_update]

Table(name, columns, primary_key, indexes, foreign_keys, engine, charset, collation, comment) ==
    [name |-> name, columns |-> columns, primary_key |-> primary_key,
     indexes |-> indexes, foreign_keys |-> foreign_keys, engine |-> engine,
     charset |-> charset, collation |-> collation, comment |-> comment]

View(name, definition) ==
    [name |-> name, definition |-> definition, check_option |-> "NONE",
     security_type |-> "DEFINER"]

StoredProcedure(name, type, definition) ==
    [name |-> name, type |-> type, definition |-> definition,
     parameters |-> "", returns |-> None]

Trigger(name, table, timing, event, definition) ==
    [name |-> name, table |-> table, timing |-> timing, event |-> event,
     definition |-> definition]

\* A Schema whose dicts were filled with the given entities, in the order
\* given (json_to_schema, lines 1419-1455, fills them in the order of the
\* file).  A dict is held as the function from its keys and, in the field
\* keys, the order in which the keys were inserted.
Schema(tables, views, procedures, triggers) ==
    [tables |-> DictByName(tables), views |-> DictByName(views),
     procedures |-> DictByName(procedures), triggers |-> DictByName(triggers),
     keys |-> [tables |-> KeysByName(tables), views |-> KeysByName(views),
               procedures |-> KeysByName(procedures),
               triggers |-> KeysByName(triggers)],
     database_name |-> "db"]

-----------------------------------------------------------------------------
(* The comparator as a state machine *)

MaxCalls == 2
MaxRuns == 2

Flags == [tables : BOOLEAN, views : BOOLEAN, procedures : BOOLEAN,
          triggers : BOOLEAN]

\* the defaults of the include_* parameters
DefaultFlags == [tables |-> TRUE, views |-> TRUE, procedures |-> TRUE,
                 triggers |-> TRUE]

\* every order in which the elements of S can be inserted or visited
Orderings(S) ==
    {p \in [1 .. Cardinality(S) -> S] : \A x \in S : \E i \in DOMAIN p : p[i] = x}

\* every way in which a process can visit the sets built by each of the
\* insertion sequences: some order of the same elements for each
HashOrdersOver(sequences) ==
    {f \in [sequences -> sequences] : \A s \in sequences : Range(f[s]) = Range(s)}

\* SchemaComparator.__init__ in a process that visits string sets as ord says
Construct(src, dst, destr, ord) ==
    /\ source = src
    /\ destination = dst
    /\ destructive = destr
    /\ migration_steps = <<>>
    /\ warnings = <<>>
    /\ order = ord
    /\ include = DefaultFlags
    /\ calls = 0
    /\ finished = <<>>
    /\ returned = <<>>
    /\ lossy_call = <<>>
    /\ validate_call = <<>>
    /\ args = [force |-> FALSE, plan |-> FALSE, execute |-> FALSE]
    /\ pc = "library"
    /\ events = <<>>
    /\ exit_status = <<>>

\* the call keeps what it reads of the source only for tables the
\* destination lacks
GenerateMigrationPlan_consuming(inc) ==
    /\ calls < MaxCalls
    /\ IF calls = 0 THEN TRUE ELSE inc = include
    /\ migration_steps' =
           generate_migration_plan(migration_steps, source, destination,
                                   destructive, inc, order)
    /\ warnings' = <<>>
    /\ include' = inc
    /\ calls' = calls + 1
    /\ returned' = Append(returned, migration_steps')
    /\ source' = [source EXCEPT !.tables =
                     [t \in DOMAIN source.tables \ DOMAIN destination.tables |->
                         source.tables[t]]]
    /\ UNCHANGED <<destination, destructive, order, finished, lossy_call,
                   validate_call, commandVars>>

\* SchemaComparator.generate_migration_plan(include_tables, include_views,
\* include_procedures, include_triggers); the caller repeats a call with
\* the flags of its first call. The list returned is a new object each
\* time (self.migration_steps = []), so the lists returned before stay as
\* they were.
GenerateMigrationPlan(inc) ==
    /\ calls < MaxCalls
    /\ IF calls = 0 THEN TRUE ELSE inc = include
    /\ migration_steps' =
           generate_migration_plan(migration_steps, source, destination,
                                   destructive, inc, order)
    /\ warnings' = <<>>
    /\ include' = inc
    /\ calls' = calls + 1
    /\ returned' = Append(returned, migration_steps')
    /\ UNCHANGED <<source, destination, destructive, order, finished, lossy_call,
                   validate_call, commandVars>>

\* generate_migration_plan() with the default arguments
GenerateDefault == GenerateMigrationPlan(DefaultFlags)

\* The tool is run again over the same two schemas: a new process, which
\* visits string sets as ord says, constructs a SchemaComparator with the
\* flag destr (migrate_command, lines 1576-1582, up to the constructor).
\* The finished run's plan is kept for comparison.
Rerun(destr, ord) ==
    /\ calls > 0
    /\ Len(finished) < MaxRuns - 1
    /\ finished' = Append(finished,
                     [destructive |-> destructive, include |-> include,
                      steps |-> migration_steps])
    /\ destructive' = destr
    /\ order' = ord
    /\ migration_steps' = <<>>
    /\ warnings' = <<>>
    /\ include' = DefaultFlags
    /\ calls' = 0
    /\ returned' = <<>>
    /\ UNCHANGED <<source, destination, lossy_call, validate_call, commandVars>>

-----------------------------------------------------------------------------
(* Bounded schemas *)

Names == {"a", "b"}

\* With two names, a process visits set(['a', 'b']) and set(['b', 'a'])
\* both as a, b, or both as b, a, or, when the two names share a slot, each
\* as it was built or each in the reverse of that.
HashOrders == HashOrdersOver(UNION {Orderings(S) : S \in SUBSET Names})

INT == <<"I","N","T">>
BIGINT == <<"B","I","G","I","N","T">>
VARCHAR_50 == <<"V","A","R","C","H","A","R","(","5","0",")">>
VARCHAR_100 == <<"V","A","R","C","H","A","R","(","1","0","0",")">>
PROCEDURE == <<"P","R","O","C","E","D","U","R","E">>
FUNCTION == <<"F","U","N","C","T","I","O","N">>

\* column a: the key column; column b: a nullable number
KeyColumn == Column("a", INT, FALSE, None, auto_increment, None, None, "")
NumberColumn == Column("b", INT, TRUE, None, <<>>, None, None, "")

\* a foreign key of table a on its key column, to the key of table b
FkToB(name, on_delete) ==
    ForeignKey(name, <<"a">>, "b", <<"a">>, on_delete, "RESTRICT")

\* The tables of the general universe.  The two tables named a differ in a
\* column that only one has, a column of another type, an index that only
\* one has, an index of another definition, a foreign key of another
\* definition, a foreign key that only one has, and the engine and charset.
GeneralTables == [n \in Names |->
    IF n = "a"
    THEN { Table("a", <<KeyColumn, NumberColumn>>, <<"a">>,
                 <<Index("a", <<"b">>, FALSE, "BTREE"),
                   Index("b", <<"a">>, FALSE, "BTREE")>>,
                 <<FkToB("a", "RESTRICT"), FkToB("b", "CASCADE")>>,
                 "InnoDB", None, None, ""),
           Table("a", <<Column("a", BIGINT, FALSE, None, auto_increment, None,
                               None, "")>>, <<"a">>,
                 <<Index("a", <<"a">>, TRUE, "BTREE")>>,
                 <<FkToB("a", "CASCADE")>>, "MyISAM", "utf8", None, "") }
    ELSE { Table("b", <<KeyColumn>>, <<"a">>, <<>>, <<>>, "InnoDB", None, None,
                 "") }]

\* every list holding at most one of the entities choices[n] per name n,
\* in every order
RECURSIVE OnePerName(_, _)
OnePerName(names, choices) ==
    IF names = {} THEN {<<>>}
    ELSE LET n == CHOOSE x \in names : TRUE
             rest == OnePerName(names \ {n}, choices)
         IN  rest \cup UNION {{SubSeq(r, 1, k) \o <<e>> \o SubSeq(r, k + 1, Len(r)) :
                                  k \in 0 .. Len(r)} :
                              r \in rest, e \in choices[n]}

GeneralViews == [n \in Names |->
    IF n = "a" THEN {View(n, "SELECT 1")} ELSE {}]
GeneralProcedures == [n \in Names |->
    IF n = "a" THEN {StoredProcedure(n, PROCEDURE, "CREATE PROCEDURE a() BEGIN END")}
    ELSE {}]
GeneralTriggers == [n \in Names |->
    IF n = "a" THEN {Trigger(n, "a", "BEFORE", "INSERT", "SET @x = 1")} ELSE {}]

GeneralSchemas ==
    { Schema(t, v, p, g) :
        t \in OnePerName(Names, GeneralTables),
        v \in OnePerName(Names, GeneralViews),
        p \in OnePerName(Names, GeneralProcedures),
        g \in OnePerName(Names, GeneralTriggers) }

Init ==
    \E src \in GeneralSchemas, dst \in GeneralSchemas, destr \in BOOLEAN,
       ord \in HashOrders :
        Construct(src, dst, destr, ord)

Next == \E inc \in Flags : GenerateMigrationPlan(inc)

Spec == Init /\ [][Next]_vars

\* The tool run, and run again over the same schemas, with the default
\* include_* arguments.
NextRuns ==
    \/ GenerateDefault
    \/ \E destr \in BOOLEAN, ord \in HashOrders : Rerun(destr, ord)

SpecRuns == Init /\ [][NextRuns]_vars

-----------------------------------------------------------------------------
(* One table in every shape of its columns and table-level fields *)

\* the text column a of the table, every field at its plain value
PlainColumn == Column("a", VARCHAR_50, TRUE, None, <<>>, None, None, "")

\* the key column b of the table
KeyColumnB(type) == Column("b", type, FALSE, None, auto_increment, None, None, "")

\* column a with every combination of values of its fields; the data type
\* in upper case, in lower case, and another type
ColumnShapes ==
    { Column("a", type, nullable, default, extra, charset, collation, comment) :
        type \in {VARCHAR_50, Lower(VARCHAR_50), VARCHAR_100},
        nullable \in BOOLEAN,
        default \in {None, "0"},
        extra \in {<<>>, auto_increment},
        charset \in {None, "utf8"},
        collation \in {None, "utf8_bin"},
        comment \in {"", "note"} }

\* table a: columns a and b, an index on a, a foreign key from b to table b
DetailedTable(column_a, column_b, primary_key, fk_name, engine, charset, collation, comment) ==
    Table("a", <<column_a, column_b>>, primary_key,
          <<Index("a", <<"a">>, FALSE, "BTREE")>>,
          <<ForeignKey(fk_name, <<"b">>, "b", <<"a">>, "RESTRICT", "RESTRICT")>>,
          engine, charset, collation, comment)

\* the referenced table b, the same on both sides
ReferencedTable ==
    Table("b", <<KeyColumn>>, <<"a">>, <<>>, <<>>, "InnoDB", None, None, "")

\* source tables: every shape of column a with either type of column b, and
\* every combination of the table-level fields over the plain columns
SourceTables ==
    { DetailedTable(column_a, KeyColumnB(type), <<"b">>, "a", "InnoDB", None,
                    None, "") :
        column_a \in ColumnShapes, type \in {INT, BIGINT} }
    \cup
    { DetailedTable(PlainColumn, KeyColumnB(INT), primary_key, fk_name, engine,
                    charset, collation, comment) :
        primary_key \in {<<"b">>, <<>>},
        fk_name \in {"a", "b"},
        engine \in {"InnoDB", "MyISAM"},
        charset \in {None, "utf8"},
        collation \in {None, "utf8_bin"},
        comment \in {"", "note"} }

\* destination tables: six shapes of column a, and the primary key and
\* charset either way
DestinationTables ==
    { DetailedTable(column_a, KeyColumnB(INT), <<"b">>, "a", "InnoDB", None,
                    None, "") :
        column_a \in { PlainColumn,
                       Column("a", Lower(VARCHAR_50), TRUE, None, <<>>, None,
                              None, "note"),
                       Column("a", VARCHAR_50, FALSE, "0", <<>>, None, None, ""),
                       Column("a", VARCHAR_100, TRUE, None, auto_increment,
                              "utf8", "utf8_bin", ""),
                       Column("a", VARCHAR_100, FALSE, None, <<>>, None, None, ""),
                       Column("a", VARCHAR_50, FALSE, None, <<>>, None, None, "") } }
    \cup
    { DetailedTable(PlainColumn, KeyColumnB(INT), primary_key, "a", "InnoDB",
                    charset, None, "") :
        primary_key \in {<<"b">>, <<>>}, charset \in {None, "utf8"} }

InitTables ==
    \E src \in SourceTables, dst \in DestinationTables, destr \in BOOLEAN,
       ord \in HashOrders :
        Construct(Schema(<<src, ReferencedTable>>, <<>>, <<>>, <<>>),
                  Schema(<<dst, ReferencedTable>>, <<>>, <<>>, <<>>), destr, ord)

SpecTables == InitTables /\ [][GenerateDefault]_vars

-----------------------------------------------------------------------------
(* One table in every shape of its indexes and foreign keys *)

\* index a over one column or two in either order, unique or not, of either
\* type
IndexShapes ==
    { Index("a", columns, is_unique, index_type) :
        columns \in {<<"a">>, <<"a", "b">>, <<"b", "a">>},
        is_unique \in BOOLEAN,
        index_type \in {"BTREE", "HASH"} }

\* the index lists of a table: index a in any shape or absent, index b or not
IndexLists ==
    LET with_a == {<<>>} \cup {<<index>> : index \in IndexShapes}
    IN  with_a \cup {indexes \o <<Index("b", <<"b">>, FALSE, "BTREE")>> :
                        indexes \in with_a}

\* foreign key a: a plain key, and the plain key with one field changed
ForeignKeyShapes ==
    { ForeignKey("a", <<"b">>, "b", <<"a">>, "RESTRICT", "RESTRICT"),
      ForeignKey("a", <<"a">>, "b", <<"a">>, "RESTRICT", "RESTRICT"),
      ForeignKey("a", <<"b">>, "a", <<"a">>, "RESTRICT", "RESTRICT"),
      ForeignKey("a", <<"b">>, "a", <<"b">>, "RESTRICT", "RESTRICT"),
      ForeignKey("a", <<"b">>, "b", <<"a">>, "CASCADE", "RESTRICT"),
      ForeignKey("a", <<"b">>, "b", <<"a">>, "RESTRICT", "CASCADE") }

\* the foreign key lists of a table: key a in any shape or absent, key b or
\* not
ForeignKeyLists ==
    LET with_a == {<<>>} \cup {<<fk>> : fk \in ForeignKeyShapes}
    IN  with_a \cup {fks \o <<ForeignKey("b", <<"a">>, "b", <<"a">>, "CASCADE",
                                         "CASCADE")>> : fks \in with_a}

\* table a with the given indexes and foreign keys over columns a and b
KeyedTable(indexes, foreign_keys) ==
    Table("a", <<PlainColumn, KeyColumnB(INT)>>, <<"b">>, indexes, foreign_keys,
          "InnoDB", None, None, "")

\* every index list beside one plain foreign key, and every foreign key
\* list beside one plain index
KeyedTables ==
    { KeyedTable(indexes,
                 <<ForeignKey("a", <<"b">>, "b", <<"a">>, "RESTRICT", "RESTRICT")>>) :
        indexes \in IndexLists }
    \cup
    { KeyedTable(<<Index("a", <<"a">>, FALSE, "BTREE")>>, foreign_keys) :
        foreign_keys \in ForeignKeyLists }

InitKeys ==
    \E src \in KeyedTables, dst \in KeyedTables, destr \in BOOLEAN,
       ord \in HashOrders :
        Construct(Schema(<<src, ReferencedTable>>, <<>>, <<>>, <<>>),
                  Schema(<<dst, ReferencedTable>>, <<>>, <<>>, <<>>), destr, ord)

SpecKeys == InitKeys /\ [][GenerateDefault]_vars

-----------------------------------------------------------------------------
(* Views, procedures and triggers over two unchanged tables *)

ObjectViews == [n \in Names |->
    IF n = "a" THEN {View(n, "SELECT 1"), View(n, "SELECT 2")}
    ELSE {View(n, "SELECT 1")}]

ObjectProcedures == [n \in Names |->
    IF n = "a"
    THEN {StoredProcedure(n, PROCEDURE, "CREATE PROCEDURE a() BEGIN END"),
          StoredProcedure(n, FUNCTION, "CREATE FUNCTION a() RETURNS INT RETURN 1")}
    ELSE {StoredProcedure(n, PROCEDURE, "CREATE PROCEDURE b() BEGIN END")}]

ObjectTriggers == [n \in Names |->
    IF n = "a"
    THEN {Trigger(n, "a", "BEFORE", "INSERT", "SET @x = 1"),
          Trigger(n, "a", "AFTER", "UPDATE", "SET @x = 2")}
    ELSE {Trigger(n, "b", "BEFORE", "INSERT", "SET @x = 1")}]

\* the two tables, the same on both sides
ObjectTables == <<KeyedTable(<<>>, <<>>), ReferencedTable>>

\* schemas that vary the views beside one procedure and one trigger, the
\* procedures beside one view and one trigger, or the triggers beside one
\* view and one procedure
ObjectSchemas ==
    LET view == <<View("a", "SELECT 1")>>
        procedure == <<StoredProcedure("a", PROCEDURE,
                                       "CREATE PROCEDURE a() BEGIN END")>>
        trigger == <<Trigger("a", "a", "BEFORE", "INSERT", "SET @x = 1")>>
    IN  { Schema(ObjectTables, v, procedure, trigger) :
            v \in OnePerName(Names, ObjectViews) }
        \cup { Schema(ObjectTables, view, p, trigger) :
                 p \in OnePerName(Names, ObjectProcedures) }
        \cup { Schema(ObjectTables, view, procedure, g) :
                 g \in OnePerName(Names, ObjectTriggers) }

InitObjects ==
    \E src \in ObjectSchemas, dst \in ObjectSchemas, destr \in BOOLEAN,
       ord \in HashOrders :
        Construct(src, dst, destr, ord)

SpecObjects == InitObjects /\ [][Next]_vars

-----------------------------------------------------------------------------
(* One table whose two sides have different columns *)

\* column b in every shape that the check of a new column looks at
AddedColumnShapes ==
    { Column("b", INT, nullable, default, extra, None, None, "") :
        nullable \in BOOLEAN,
        default \in {None, "0"},
        extra \in {<<>>, auto_increment, Upper(auto_increment),
                   <<"u","n","s","i","g","n","e","d">>} }

\* table a with the given columns and nothing else
ColumnsTable(columns) ==
    Table("a", columns, <<>>, <<>>, <<>>, "InnoDB", None, None, "")

\* source tables: column b alone or after column a, and column a alone
SourceColumnTables ==
    { ColumnsTable(<<column_b>>) : column_b \in AddedColumnShapes }
    \cup { ColumnsTable(<<PlainColumn, column_b>>) : column_b \in AddedColumnShapes }
    \cup { ColumnsTable(<<PlainColumn>>) }

\* destination tables: column a, column b, or both
DestinationColumnTables ==
    { ColumnsTable(<<PlainColumn>>),
      ColumnsTable(<<Column("b", INT, TRUE, None, <<>>, None, None, "")>>),
      ColumnsTable(<<PlainColumn, Column("b", INT, TRUE, None, <<>>, None, None, "")>>) }

InitColumns ==
    \E src \in SourceColumnTables, dst \in DestinationColumnTables,
       destr \in BOOLEAN, ord \in HashOrders :
        Construct(Schema(<<src>>, <<>>, <<>>, <<>>), Schema(<<dst>>, <<>>, <<>>, <<>>),
                  destr, ord)

SpecColumns == InitColumns /\ [][GenerateDefault]_vars

-----------------------------------------------------------------------------
(* _is_lossy_column_change called on its own, over a pool of data types *)

CHAR_5 == <<"C","H","A","R","(","5",")">>
CHAR_10 == <<"C","H","A","R","(","1","0",")">>
DECIMAL_8_2 == <<"D","E","C","I","M","A","L","(","8",",","2",")">>
DECIMAL_8_4 == <<"D","E","C","I","M","A","L","(","8",",","4",")">>
DECIMAL_10_2 == <<"D","E","C","I","M","A","L","(","1","0",",","2",")">>
INT_11 == <<"I","N","T","(","1","1",")">>
BIGINT_20 == <<"B","I","G","I","N","T","(","2","0",")">>
POINT == <<"P","O","I","N","T">>
TINYTEXT == <<"T","I","N","Y","T","E","X","T">>

\* the data types of the two columns of a call
DataTypes ==
    { VARCHAR_50, VARCHAR_100, Lower(VARCHAR_50), Lower(VARCHAR_100),
      CHAR_5, CHAR_10, DECIMAL_8_2, DECIMAL_8_4, DECIMAL_10_2,
      Lower(DECIMAL_10_2), INT, BIGINT, Lower(INT), Lower(BIGINT), INT_11,
      BIGINT_20, T_TEXT, T_FLOAT, T_DOUBLE, T_TINYINT, T_SMALLINT,
      T_MEDIUMINT, POINT, TINYTEXT }

\* a comparator over two empty schemas, and the two columns of the call:
\* nullable columns a of the two types
InitLossy ==
    /\ source = Schema(<<>>, <<>>, <<>>, <<>>)
    /\ destination = Schema(<<>>, <<>>, <<>>, <<>>)
    /\ destructive = FALSE
    /\ migration_steps = <<>>
    /\ warnings = <<>>
    /\ order \in HashOrdersOver({<<>>})
    /\ include = DefaultFlags
    /\ calls = 0
    /\ finished = <<>>
    /\ returned = <<>>
    /\ validate_call = <<>>
    /\ args = [force |-> FALSE, plan |-> FALSE, execute |-> FALSE]
    /\ pc = "library"
    /\ events = <<>>
    /\ exit_status = <<>>
    /\ \E old_type \in DataTypes, new_type \in DataTypes :
          lossy_call = << Column("a", old_type, TRUE, None, <<>>, None, None, ""),
                          Column("a", new_type, TRUE, None, <<>>, None, None, "") >>

\* self._is_lossy_column_change(old_col, new_col)
IsLossyColumnChange ==
    /\ Len(lossy_call) = 2
    /\ lossy_call' =
           Append(lossy_call, is_lossy_column_change(lossy_call[1], lossy_call[2]))
    /\ UNCHANGED <<source, destination, destructive, migration_steps, warnings,
                   order, include, calls, finished, returned, validate_call,
                   commandVars>>

SpecLossy == InitLossy /\ [][IsLossyColumnChange]_vars

-----------------------------------------------------------------------------
(* SchemaValidator._validate_table called on its own *)

\* columns for validation: nullable or not, with or without a default, and
\* auto_increment absent, in lower case or in upper case
ValidatedColumns(name) ==
    { Column(name, INT, is_nullable, default, extra, None, None, "") :
        is_nullable \in BOOLEAN, default \in {None, "0"},
        extra \in {<<>>, auto_increment, Upper(auto_increment)} }

\* foreign keys for validation: one or two local columns against one or two
\* referenced columns
ValidatedForeignKeys(name) ==
    { ForeignKey(name, columns, "b", referenced_columns, "RESTRICT", "RESTRICT") :
        columns \in {<<"a">>, <<"a", "b">>},
        referenced_columns \in {<<"a">>, <<"a", "b">>} }

\* tables of no, one or two columns, with and without a primary key, and
\* with no, one or two foreign keys
ValidatedTables ==
    { Table("a", columns, primary_key, <<>>, foreign_keys, "InnoDB", None, None, "") :
        columns \in {<<>>} \cup { <<a>> : a \in ValidatedColumns("a") }
                    \cup { <<a, b>> : a \in ValidatedColumns("a"),
                                      b \in { Column("b", INT, FALSE, None, <<>>,
                                                     None, None, ""),
                                              NumberColumn } },
        primary_key \in {<<>>, <<"a">>},
        foreign_keys \in {<<>>} \cup { <<a>> : a \in ValidatedForeignKeys("a") }
                         \cup { <<a, b>> : a \in ValidatedForeignKeys("a"),
                                           b \in ValidatedForeignKeys("b") } }

\* no comparator in use, and the table of the call
InitValidate ==
    /\ source = Schema(<<>>, <<>>, <<>>, <<>>)
    /\ destination = Schema(<<>>, <<>>, <<>>, <<>>)
    /\ destructive = FALSE
    /\ migration_steps = <<>>
    /\ warnings = <<>>
    /\ order \in HashOrdersOver({<<>>})
    /\ include = DefaultFlags
    /\ calls = 0
    /\ finished = <<>>
    /\ returned = <<>>
    /\ lossy_call = <<>>
    /\ args = [force |-> FALSE, plan |-> FALSE, execute |-> FALSE]
    /\ pc = "library"
    /\ events = <<>>
    /\ exit_status = <<>>
    /\ \E table \in ValidatedTables : validate_call = <<table>>

\* SchemaValidator._validate_table(table): the table is only read
ValidateTable ==
    /\ Len(validate_call) = 1
    /\ validate_call' = <<validate_call[1], validate_table(validate_call[1])>>
    /\ UNCHANGED <<source, destination, destructive, migration_steps, warnings,
                   order, include, calls, finished, returned, lossy_call,
                   commandVars>>

SpecValidate == InitValidate /\ [][ValidateTable]_vars

-----------------------------------------------------------------------------
(* Tables the plan creates, and foreign keys it adds to a table in place *)

\* the destination without table a, or with table a as the source has it
\* but for its foreign keys, of which the destination has none
InitCreated ==
    \E table \in ValidatedTables, destr \in BOOLEAN, ord \in HashOrders :
        \E dst \in { Schema(<<ReferencedTable>>, <<>>, <<>>, <<>>),
                     Schema(<<[table EXCEPT !.foreign_keys = <<>>], ReferencedTable>>,
                            <<>>, <<>>, <<>>) } :
            Construct(Schema(<<table, ReferencedTable>>, <<>>, <<>>, <<>>), dst, destr, ord)

SpecCreated == InitCreated /\ [][GenerateDefault]_vars

-----------------------------------------------------------------------------
(* migrate_command, from the construction of the comparator on *)

\* args.force, args.plan and args.execute; the include_* arguments are left
\* at their defaults and args.destructive is the comparator's flag
Arguments == [force : BOOLEAN, plan : BOOLEAN, execute : BOOLEAN]

\* the schemas the command has loaded: empty, table b alone, and table a
\* beside it with a primary key, an index and a foreign key, or with neither
CommandSchemas ==
    { Schema(<<>>, <<>>, <<>>, <<>>),
      Schema(<<ReferencedTable>>, <<>>, <<>>, <<>>),
      Schema(<<KeyedTable(<<Index("a", <<"a">>, FALSE, "BTREE")>>,
                          <<ForeignKey("a", <<"b">>, "b", <<"a">>, "RESTRICT",
                                       "RESTRICT")>>),
               ReferencedTable>>, <<>>, <<>>, <<>>),
      Schema(<<ColumnsTable(<<PlainColumn>>), ReferencedTable>>, <<>>, <<>>, <<>>) }

\* SchemaComparator(source_schema, dest_schema, destructive=args.destructive)
InitCommand ==
    \E src \in CommandSchemas, dst \in CommandSchemas, destr \in BOOLEAN,
       ord \in HashOrders, given \in Arguments :
        /\ source = src
        /\ destination = dst
        /\ destructive = destr
        /\ migration_steps = <<>>
        /\ warnings = <<>>
        /\ order = ord
        /\ include = DefaultFlags
        /\ calls = 0
        /\ finished = <<>>
        /\ returned = <<>>
        /\ lossy_call = <<>>
        /\ validate_call = <<>>
        /\ args = given
        /\ pc = "analyze"
        /\ events = <<>>
        /\ exit_status = <<>>

\* the variables the command leaves alone after the analysis
comparatorVars ==
    <<source, destination, destructive, migration_steps, warnings, order,
      include, calls, finished, returned, lossy_call, validate_call>>

\* the function returns, or sys.exit(status)
Exit(status) ==
    /\ pc' = "done"
    /\ exit_status' = <<status>>

\* all_warnings: the warnings of the steps, in plan order
all_warnings(steps) == Flatten([i \in DOMAIN steps |-> steps[i].warnings])

\* sql_lines of the --plan script
sql_lines(steps) ==
    << <<"-- MySQL Schema Migration Script">>,
       <<"-- Generated by MySQL Schema Migrator\n">> >>
    \o Flatten([i \in DOMAIN steps |->
           << <<"-- ">> \o steps[i].description >>
           \o [k \in DOMAIN steps[i].warnings |->
                  <<"-- WARNING: ">> \o steps[i].warnings[k].message]
           \o << steps[i].sql, <<>> >>])

\* the steps executed so far
Executed == SelectSeq(events, LAMBDA e : e[1] = "execute")

\* comparator.generate_migration_plan(...), and the return on an empty plan
Analyze ==
    /\ pc = "analyze"
    /\ migration_steps' =
           generate_migration_plan(migration_steps, source, destination,
                                   destructive, DefaultFlags, order)
    /\ warnings' = <<>>
    /\ include' = DefaultFlags
    /\ calls' = calls + 1
    /\ returned' = Append(returned, migration_steps')
    /\ IF migration_steps' = <<>>
       THEN Exit(0)
       ELSE pc' = "warnings" /\ UNCHANGED exit_status
    /\ UNCHANGED <<source, destination, destructive, order, finished, lossy_call,
                   validate_call, args, events>>

\* a step with an INFO-level warning alone does not stop the command
WarningGate_above_info ==
    /\ pc = "warnings"
    /\ IF /\ \E k \in DOMAIN all_warnings(migration_steps) :
                all_warnings(migration_steps)[k].level # INFO
          /\ ~args.force
       THEN Exit(1)
       ELSE pc' = "plan" /\ UNCHANGED exit_status
    /\ UNCHANGED <<comparatorVars, args, events>>

\* the warnings collected and shown; sys.exit(1) without --force
WarningGate ==
    /\ pc = "warnings"
    /\ IF all_warnings(migration_steps) # <<>> /\ ~args.force
       THEN Exit(1)
       ELSE pc' = "plan" /\ UNCHANGED exit_status
    /\ UNCHANGED <<comparatorVars, args, events>>

\* the script written with --plan; without --execute the function returns
WritePlan ==
    /\ pc = "plan"
    /\ events' = IF args.plan
                 THEN Append(events, <<"script", sql_lines(migration_steps)>>)
                 ELSE events
    /\ IF args.execute
       THEN pc' = "connect" /\ UNCHANGED exit_status
       ELSE Exit(0)
    /\ UNCHANGED <<comparatorVars, args>>

\* DatabaseConnection.__exit__: the connection is closed if it is still
\* connected
ExitConnection(connected) ==
    IF connected THEN << <<"disconnect", <<>> >> >> ELSE <<>>

\* with DatabaseConnection(**dest_conn) as db, and db.connection.cursor().
\* __enter__ ends the process with status 1 when the connection is refused.
\* db.connection.cursor() is outside the try block: when it raises, the
\* with block is left through __exit__ and the uncaught error ends the
\* process with status 1.
Connect ==
    /\ pc = "connect"
    /\ \E outcome \in {"cursor", "no cursor", "refused"}, connected \in BOOLEAN :
          CASE outcome = "cursor" ->
                  /\ events' = events \o << <<"connect", <<>> >>, <<"cursor", <<>> >> >>
                  /\ pc' = "execute"
                  /\ UNCHANGED exit_status
            [] outcome = "no cursor" ->
                  /\ events' = Append(events, <<"connect", <<>> >>)
                                \o ExitConnection(connected)
                  /\ Exit(1)
            [] outcome = "refused" ->
                  /\ UNCHANGED events
                  /\ Exit(1)
    /\ UNCHANGED <<comparatorVars, args>>

\* a failed step does not end the loop
ExecuteStep_carrying_on ==
    /\ pc = "execute"
    /\ LET i == Len(Executed) + 1
       IN  \E raised \in BOOLEAN :
              /\ events' = Append(events, <<"execute", migration_steps[i].sql>>)
                           \o (IF raised THEN << <<"MySQLError", <<>> >> >> ELSE <<>>)
              /\ pc' = IF i < Len(migration_steps) THEN "execute"
                       ELSE IF raised THEN "rollback" ELSE "commit"
    /\ UNCHANGED <<comparatorVars, args, exit_status>>

\* cursor.execute(step.sql) for the next step of the plan; the database
\* accepts the statement or raises MySQLError
ExecuteStep ==
    /\ pc = "execute"
    /\ LET i == Len(Executed) + 1
       IN  \E raised \in BOOLEAN :
              /\ events' = Append(events, <<"execute", migration_steps[i].sql>>)
                           \o (IF raised THEN << <<"MySQLError", <<>> >> >> ELSE <<>>)
              /\ pc' = IF raised THEN "rollback"
                       ELSE IF i < Len(migration_steps) THEN "execute"
                       ELSE "commit"
    /\ UNCHANGED <<comparatorVars, args, exit_status>>

\* db.connection.commit(), inside the try block: it succeeds or raises
\* MySQLError
Commit ==
    /\ pc = "commit"
    /\ \E raised \in BOOLEAN :
          /\ events' = Append(events, <<"commit", <<>> >>)
                       \o (IF raised THEN << <<"MySQLError", <<>> >> >> ELSE <<>>)
          /\ pc' = IF raised THEN "rollback" ELSE "close"
    /\ UNCHANGED <<comparatorVars, args, exit_status>>

\* except MySQLError: db.connection.rollback(); sys.exit(1) follows once the
\* finally block has run.  When the rollback itself raises, the finally
\* block runs as well and the uncaught error ends the process with status 1.
Rollback ==
    /\ pc = "rollback"
    /\ events' = Append(events, <<"rollback", <<>> >>)
    /\ pc' = "close_exit"
    /\ UNCHANGED <<comparatorVars, args, exit_status>>

\* finally: cursor.close(); then the with block is left through __exit__
\* and the function returns, or the pending sys.exit(1) ends the process.
\* When cursor.close() raises, the uncaught error ends the process with
\* status 1, after a commit as well.
CloseCursor ==
    /\ pc \in {"close", "close_exit"}
    /\ \E raised \in BOOLEAN, connected \in BOOLEAN :
          /\ events' = Append(events, <<"close", <<>> >>) \o ExitConnection(connected)
          /\ Exit(IF pc = "close" /\ ~raised THEN 0 ELSE 1)
    /\ UNCHANGED <<comparatorVars, args>>

NextCommand ==
    \/ Analyze
    \/ WarningGate
    \/ WritePlan
    \/ Connect
    \/ ExecuteStep
    \/ Commit
    \/ Rollback
    \/ CloseCursor

SpecCommand == InitCommand /\ [][NextCommand]_vars

-----------------------------------------------------------------------------
(* Reading a plan *)

\* the names of the entities of a list
NamesOf(entities) == {entities[i].name : i \in DOMAIN entities}

\* the entity called n of a list
Named(entities, n) == DictByName(entities)[n]

CommonTables == DOMAIN source.tables \cap DOMAIN destination.tables

\* the positions of the plan that hold a step of this stage and SQL text
StepsWith(stage, sql) ==
    {i \in DOMAIN migration_steps :
        migration_steps[i].stage = stage /\ migration_steps[i].sql = sql}

\* the positions of the plan whose step is of this stage and whose SQL text
\* starts with the given pieces
StepsStarting(stage, prefix) ==
    {i \in DOMAIN migration_steps :
        /\ migration_steps[i].stage = stage
        /\ MatchesAt(migration_steps[i].sql, prefix, 1)}

StepsOfStage(stage) ==
    {i \in DOMAIN migration_steps : migration_steps[i].stage = stage}

\* the SQL texts the tool writes for its statements
DropTableSql(t) == <<"DROP TABLE IF EXISTS ", BQ, t, BQ, ";">>
DropViewSql(v) == <<"DROP VIEW IF EXISTS ", BQ, v, BQ, ";">>
DropTriggerSql(g) == <<"DROP TRIGGER IF EXISTS ", BQ, g, BQ, ";">>
DropColumnSql(t, c) == <<"ALTER TABLE ", BQ, t, BQ, " DROP COLUMN ", BQ, c, BQ, ";">>
DropIndexSql(t, n) == <<"ALTER TABLE ", BQ, t, BQ, " DROP INDEX ", BQ, n, BQ, ";">>
DropForeignKeySql(t, n) ==
    <<"ALTER TABLE ", BQ, t, BQ, " DROP FOREIGN KEY ", BQ, n, BQ, ";">>
DropProcedureSql(type, p) ==
    <<"DROP ">> \o type \o <<" IF EXISTS ", BQ, p, BQ, ";">>
AlterTable(t) == <<"ALTER TABLE ", BQ, t, BQ>>
AddColumn(t, c) == AlterTable(t) \o <<" ADD COLUMN ", BQ, c, BQ>>
ModifyColumn(t, c) == AlterTable(t) \o <<" MODIFY COLUMN ", BQ, c, BQ>>
AddConstraint(t, n) == AlterTable(t) \o <<" ADD CONSTRAINT ", BQ, n, BQ>>
AddIndex(t, n, unique) ==
    AlterTable(t) \o <<" ADD ">> \o (IF unique THEN <<"UNIQUE ">> ELSE <<>>)
    \o <<"INDEX ", BQ, n, BQ>>
CreateTable(t) == <<"CREATE TABLE ", BQ, t, BQ>>
CreateView(v) == <<"CREATE OR REPLACE VIEW ", BQ, v, BQ>>
CreateTrigger(g) == <<"CREATE TRIGGER ", BQ, g, BQ>>

-----------------------------------------------------------------------------
(* Properties of the plan *)

\* C1: in every plan generate_migration_plan returns, the stage values of
\* the steps never decrease from one position to the next.
C1_StageOrder ==
    \A i, j \in DOMAIN migration_steps :
        i < j => migration_steps[i].stage <= migration_steps[j].stage

\* a returned plan whose steps were collected against the stage order: a
\* trigger step (collected first), a view step and a table step
C1_Witness ==
    /\ calls > 0
    /\ \E i, j, k \in DOMAIN migration_steps :
          /\ i < j /\ j < k
          /\ migration_steps[i].stage = DROP_TABLES
          /\ migration_steps[j].stage = CREATE_VIEWS
          /\ migration_steps[k].stage = CREATE_TRIGGERS

\* C2 as the specification states it: a schema compared with itself gives
\* the empty plan, for either value of destructive.
C2_SelfComparisonEmpty ==
    (calls > 0 /\ source = destination) => migration_steps = <<>>

\* the number of steps that the views, procedures and triggers of a schema
\* yield when it is compared with itself under the flags inc
SelfComparisonSteps(schema, inc) ==
    (IF inc.views THEN Cardinality(DOMAIN schema.views) ELSE 0)
    + (IF inc.procedures THEN 2 * Cardinality(DOMAIN schema.procedures) ELSE 0)
    + (IF inc.triggers THEN 2 * Cardinality(DOMAIN schema.triggers) ELSE 0)

\* C2, amended: a schema compared with itself gives, for either value of
\* destructive, a plan with no step of a stage from DROP_VIEWS to
\* CREATE_FOREIGN_KEYS (nothing is planned for its tables and nothing is
\* dropped for good), one CREATE_VIEWS step for each included view, and a
\* drop step and a create step for each included procedure and trigger; so
\* the plan is empty exactly when the schema has no view, procedure or
\* trigger of an included kind.
C2_SelfComparisonTablesOnly ==
    (calls > 0 /\ source = destination) =>
        /\ \A i \in DOMAIN migration_steps :
              migration_steps[i].stage \notin DROP_VIEWS .. CREATE_FOREIGN_KEYS
        /\ Cardinality(StepsOfStage(CREATE_VIEWS))
              = (IF include.views THEN Cardinality(DOMAIN source.views) ELSE 0)
        /\ Cardinality(StepsOfStage(CREATE_PROCEDURES))
              = (IF include.procedures
                 THEN 2 * Cardinality(DOMAIN source.procedures) ELSE 0)
        /\ Cardinality(StepsOfStage(DROP_TRIGGERS))
              = (IF include.triggers THEN Cardinality(DOMAIN source.triggers) ELSE 0)
        /\ Cardinality(StepsOfStage(CREATE_TRIGGERS))
              = (IF include.triggers THEN Cardinality(DOMAIN source.triggers) ELSE 0)
        /\ (migration_steps = <<>>) <=> (SelfComparisonSteps(source, include) = 0)

\* a destructive comparison of a schema of two tables (with indexes, foreign
\* keys and table options), a view, a procedure and a trigger with itself,
\* everything included: five steps, none for the tables
C2_Witness ==
    /\ calls > 0
    /\ source = destination
    /\ destructive
    /\ include = DefaultFlags
    /\ DOMAIN source.tables = {"a", "b"}
    /\ source.tables["a"].charset = "utf8"
    /\ DOMAIN source.views # {} /\ DOMAIN source.procedures # {}
    /\ DOMAIN source.triggers # {}
    /\ Len(migration_steps) = 5

\* C3: a plan made with destructive = FALSE has no DROP_TABLES, DROP_COLUMNS
\* or DROP_VIEWS step; each of its DROP_FOREIGN_KEYS, DROP_INDEXES and
\* DROP_TRIGGERS steps drops an entity that the source has too and that a
\* later step of the plan creates again; and no step is for an entity that
\* only the destination has: every ALTER TABLE or CREATE step is for a table,
\* view or trigger of the source, every step that adds or modifies a column,
\* creates an index or adds a foreign key names a column, index or foreign
\* key of the source's version of a common table (a table-options step names
\* a common table), and every step of stage CREATE_PROCEDURES drops for
\* re-creation, or creates, a procedure or function of the source.
C3_NonDestructive ==
    (calls > 0 /\ ~destructive) =>
        \A i \in DOMAIN migration_steps :
            LET step == migration_steps[i]
                later(stage, prefix) ==
                    \E j \in StepsStarting(stage, prefix) : j > i
            IN  /\ step.stage \notin {DROP_TABLES, DROP_COLUMNS, DROP_VIEWS}
                /\ step.stage = DROP_FOREIGN_KEYS =>
                      \E t \in CommonTables :
                        \E n \in NamesOf(source.tables[t].foreign_keys)
                                   \cap NamesOf(destination.tables[t].foreign_keys) :
                            /\ step.sql = DropForeignKeySql(t, n)
                            /\ later(CREATE_FOREIGN_KEYS, AddConstraint(t, n))
                /\ step.stage = DROP_INDEXES =>
                      \E t \in CommonTables :
                        \E n \in NamesOf(source.tables[t].indexes)
                                   \cap NamesOf(destination.tables[t].indexes) :
                            /\ step.sql = DropIndexSql(t, n)
                            /\ \/ later(CREATE_INDEXES, AddIndex(t, n, TRUE))
                               \/ later(CREATE_INDEXES, AddIndex(t, n, FALSE))
                /\ step.stage = DROP_TRIGGERS =>
                      \E g \in DOMAIN source.triggers \cap DOMAIN destination.triggers :
                            /\ step.sql = DropTriggerSql(g)
                            /\ later(CREATE_TRIGGERS, CreateTrigger(g))
                /\ MatchesAt(step.sql, <<"ALTER TABLE ">>, 1) =>
                      step.sql[3] \in DOMAIN source.tables
                /\ step.stage = CREATE_TABLES => step.sql[3] \in DOMAIN source.tables
                /\ step.stage = CREATE_VIEWS => step.sql[3] \in DOMAIN source.views
                /\ step.stage = CREATE_TRIGGERS => step.sql[3] \in DOMAIN source.triggers
                /\ step.stage = ADD_COLUMNS =>
                      \E t \in CommonTables :
                        \E c \in NamesOf(source.tables[t].columns) :
                            MatchesAt(step.sql, AddColumn(t, c), 1)
                /\ step.stage = MODIFY_COLUMNS =>
                      \E t \in CommonTables :
                        \/ \E c \in NamesOf(source.tables[t].columns) :
                              MatchesAt(step.sql, ModifyColumn(t, c), 1)
                        \/ /\ step.description
                                 = <<"Update table options for '", t, "'">>
                           /\ MatchesAt(step.sql, AlterTable(t) \o <<" ">>, 1)
                /\ step.stage = CREATE_INDEXES =>
                      \E t \in CommonTables :
                        \E n \in NamesOf(source.tables[t].indexes) :
                            \/ MatchesAt(step.sql, AddIndex(t, n, TRUE), 1)
                            \/ MatchesAt(step.sql, AddIndex(t, n, FALSE), 1)
                /\ step.stage = CREATE_FOREIGN_KEYS =>
                      \E t \in CommonTables :
                        \E n \in NamesOf(source.tables[t].foreign_keys) :
                            MatchesAt(step.sql, AddConstraint(t, n), 1)
                /\ step.stage = CREATE_PROCEDURES =>
                      \E p \in DOMAIN source.procedures :
                        LET proc == source.procedures[p]
                            created ==
                                [stage |-> CREATE_PROCEDURES,
                                 sql |-> <<proc.definition, ";">>,
                                 description |-> <<"Create ">> \o Lower(proc.type)
                                                 \o <<" '", p, "'">>]
                            creates(k) ==
                                /\ k \in DOMAIN migration_steps
                                /\ migration_steps[k].stage = created.stage
                                /\ migration_steps[k].sql = created.sql
                                /\ migration_steps[k].description = created.description
                        IN  \/ creates(i)
                            \/ /\ p \in DOMAIN destination.procedures
                               /\ step.sql = DropProcedureSql(proc.type, p)
                               /\ creates(i + 1)

\* a non-destructive plan over a destination that has a table, a view, a
\* procedure, a trigger, a column, an index and a foreign key that the
\* source lacks, and a foreign key and an index that the plan drops to
\* create them again
C3_Witness ==
    /\ calls > 0
    /\ ~destructive
    /\ include = DefaultFlags
    /\ DOMAIN destination.tables \ DOMAIN source.tables # {}
    /\ DOMAIN destination.views \ DOMAIN source.views # {}
    /\ DOMAIN destination.procedures \ DOMAIN source.procedures # {}
    /\ DOMAIN destination.triggers \ DOMAIN source.triggers # {}
    /\ \E t \in CommonTables :
          /\ NamesOf(destination.tables[t].columns)
                \ NamesOf(source.tables[t].columns) # {}
          /\ NamesOf(destination.tables[t].indexes)
                \ NamesOf(source.tables[t].indexes) # {}
          /\ NamesOf(destination.tables[t].foreign_keys)
                \ NamesOf(source.tables[t].foreign_keys) # {}
    /\ StepsOfStage(DROP_INDEXES) # {}
    /\ StepsOfStage(DROP_FOREIGN_KEYS) # {}

\* s is t with some of its elements left out
RECURSIVE IsSubsequence(_, _)
IsSubsequence(s, t) ==
    IF s = <<>> THEN TRUE
    ELSE IF t = <<>> THEN FALSE
    ELSE IF Head(s) = Head(t) THEN IsSubsequence(Tail(s), Tail(t))
    ELSE IsSubsequence(s, Tail(t))

\* C4 as the specification states it: for the same source and destination,
\* the plan made with destructive = FALSE is the plan made with
\* destructive = TRUE with some steps left out, the others in the same order.
C4_Monotone ==
    \A r \in DOMAIN finished :
        (calls > 0 /\ finished[r].include = include) =>
            /\ (~finished[r].destructive /\ destructive) =>
                  IsSubsequence(finished[r].steps, migration_steps)
            /\ (finished[r].destructive /\ ~destructive) =>
                  IsSubsequence(migration_steps, finished[r].steps)

\* C5 as the specification states it: two runs with the same source,
\* destination, destructive flag and include flags return the same plan.
C5_Deterministic ==
    \A r \in DOMAIN finished :
        (/\ calls > 0
         /\ finished[r].include = include
         /\ finished[r].destructive = destructive) =>
            finished[r].steps = migration_steps

\* C6 as the specification states it: a destructive plan with everything
\* included has exactly one drop step for every table, view, procedure and
\* trigger that only the destination has, and for every column, index and
\* foreign key that only the destination's version of a common table has.
C6_DestinationOnlyDropped ==
    (calls > 0 /\ destructive /\ include = DefaultFlags) =>
        /\ \A t \in DOMAIN destination.tables \ DOMAIN source.tables :
              Cardinality(StepsWith(DROP_TABLES, DropTableSql(t))) = 1
        /\ \A v \in DOMAIN destination.views \ DOMAIN source.views :
              Cardinality(StepsWith(DROP_VIEWS, DropViewSql(v))) = 1
        /\ \A g \in DOMAIN destination.triggers \ DOMAIN source.triggers :
              Cardinality(StepsWith(DROP_TRIGGERS, DropTriggerSql(g))) = 1
        /\ \A p \in DOMAIN destination.procedures \ DOMAIN source.procedures :
              Cardinality({i \in DOMAIN migration_steps :
                  migration_steps[i].sql
                    = DropProcedureSql(destination.procedures[p].type, p)}) = 1
        /\ \A t \in CommonTables :
              LET src == source.tables[t]
                  dst == destination.tables[t]
              IN  /\ \A c \in NamesOf(dst.columns) \ NamesOf(src.columns) :
                        Cardinality(StepsWith(DROP_COLUMNS, DropColumnSql(t, c))) = 1
                  /\ \A n \in NamesOf(dst.indexes) \ NamesOf(src.indexes) :
                        Cardinality(StepsWith(DROP_INDEXES, DropIndexSql(t, n))) = 1
                  /\ \A n \in NamesOf(dst.foreign_keys) \ NamesOf(src.foreign_keys) :
                        Cardinality(StepsWith(DROP_FOREIGN_KEYS,
                                              DropForeignKeySql(t, n))) = 1

\* the steps of the plan that are statements on table t
StepsOnTable(stage, t) == StepsStarting(stage, AlterTable(t))

\* C7 as the specification states it: over schemas of tables only, an empty
\* destructive plan means that source and destination have the same tables
\* and that each table has on both sides the same columns, primary key,
\* indexes, foreign keys, engine, charset, collation and comment.
C7_EmptyPlanMeansEqualTables ==
    (/\ calls > 0 /\ destructive /\ include = DefaultFlags
     /\ migration_steps = <<>>) =>
        /\ DOMAIN source.tables = DOMAIN destination.tables
        /\ \A t \in CommonTables :
              LET src == source.tables[t]
                  dst == destination.tables[t]
              IN  /\ NamesOf(src.columns) = NamesOf(dst.columns)
                  /\ \A c \in NamesOf(src.columns) \cap NamesOf(dst.columns) :
                        ColumnEq(Named(src.columns, c), Named(dst.columns, c))
                  /\ src.primary_key = dst.primary_key
                  /\ Range(src.indexes) = Range(dst.indexes)
                  /\ Range(src.foreign_keys) = Range(dst.foreign_keys)
                  /\ src.engine = dst.engine
                  /\ src.charset = dst.charset
                  /\ src.collation = dst.collation
                  /\ src.comment = dst.comment

\* the foreign keys that the step at position k creates: those of the
\* table it creates, or the one it adds to a table
ForeignKeysCreatedAt(k) ==
    LET step == migration_steps[k]
    IN  IF step.stage = CREATE_TABLES
        THEN Range(source.tables[step.sql[3]].foreign_keys)
        ELSE IF step.stage = CREATE_FOREIGN_KEYS
        THEN {Named(source.tables[step.sql[3]].foreign_keys, step.sql[7])}
        ELSE {}

\* C8 as the specification states it: every DROP_FOREIGN_KEYS step comes
\* before every DROP_INDEXES, DROP_COLUMNS and DROP_TABLES step, and every
\* step that creates a foreign key (ADD CONSTRAINT, or CREATE TABLE with a
\* CONSTRAINT clause) comes after the step of the plan that creates the
\* referenced table and after every ADD_COLUMNS and MODIFY_COLUMNS step.
C8_ForeignKeyOrder ==
    /\ \A i \in StepsOfStage(DROP_FOREIGN_KEYS) :
          \A j \in StepsOfStage(DROP_INDEXES) \cup StepsOfStage(DROP_COLUMNS)
                    \cup StepsOfStage(DROP_TABLES) : i < j
    /\ \A k \in DOMAIN migration_steps :
          \A fk \in ForeignKeysCreatedAt(k) :
              /\ \A j \in StepsStarting(CREATE_TABLES,
                                        CreateTable(fk.referenced_table)) :
                    j = k \/ j < k
              /\ \A j \in StepsOfStage(ADD_COLUMNS) \cup StepsOfStage(MODIFY_COLUMNS) :
                    j < k

\* C9 as the specification states it: when a table of both sides has in
\* the source a foreign key that differs from one of the destination in its
\* name only, the plan has no DROP_FOREIGN_KEYS and no CREATE_FOREIGN_KEYS
\* step for that table, for either value of destructive.
C9_ForeignKeyRename ==
    calls > 0 =>
        \A t \in CommonTables :
            (\E f \in Range(source.tables[t].foreign_keys),
                g \in Range(destination.tables[t].foreign_keys) :
                /\ f.name # g.name
                /\ f.columns = g.columns
                /\ f.referenced_table = g.referenced_table
                /\ f.referenced_columns = g.referenced_columns
                /\ f.on_delete = g.on_delete
                /\ f.on_update = g.on_update)
            => /\ StepsOnTable(DROP_FOREIGN_KEYS, t) = {}
               /\ StepsOnTable(CREATE_FOREIGN_KEYS, t) = {}

\* the fields in which C10 says two columns of one name differ
ColumnsDiffer(s, d) ==
    \/ s.is_nullable # d.is_nullable
    \/ s.default # d.default
    \/ s.extra # d.extra
    \/ s.character_set # d.character_set
    \/ s.collation # d.collation
    \/ Upper(s.data_type) # Upper(d.data_type)

\* C10: for every column name that both versions of a table have, the plan
\* has exactly one MODIFY COLUMN step for that column if the two columns
\* differ in nullability, default, extra, character set, collation or the
\* data type compared without regard to letter case, and none otherwise (so
\* none for a difference in the comment or in the case of the data type).
C10_ModifyColumns ==
    calls > 0 =>
        \A t \in CommonTables :
            LET src == source.tables[t]
                dst == destination.tables[t]
            IN  \A c \in NamesOf(src.columns) \cap NamesOf(dst.columns) :
                    Cardinality(StepsStarting(MODIFY_COLUMNS, ModifyColumn(t, c)))
                      = (IF ColumnsDiffer(Named(src.columns, c), Named(dst.columns, c))
                         THEN 1 ELSE 0)

\* a plan over a table whose column a differs between the two sides in its
\* comment and in the letter case of its data type only, with no step for
\* it, and whose column b differs in its data type, with one step for it
C10_Witness ==
    /\ calls > 0
    /\ LET s == Named(source.tables["a"].columns, "a")
           d == Named(destination.tables["a"].columns, "a")
       IN  /\ s.comment # d.comment
           /\ s.data_type # d.data_type
           /\ ~ColumnsDiffer(s, d)
    /\ StepsStarting(MODIFY_COLUMNS, ModifyColumn("a", "a")) = {}
    /\ Named(source.tables["a"].columns, "b").data_type = BIGINT
    /\ Cardinality(StepsStarting(MODIFY_COLUMNS, ModifyColumn("a", "b"))) = 1

\* the step's description ends with the recreation tag
TaggedRecreated(step) ==
    step.description[Len(step.description)] = "' (will be recreated)"

\* the steps of the plan that create index n of table t
IndexCreations(t, n) ==
    StepsStarting(CREATE_INDEXES, AddIndex(t, n, TRUE))
        \cup StepsStarting(CREATE_INDEXES, AddIndex(t, n, FALSE))

\* what C11 says of one index or foreign key name of the source's version
\* of a common table: drops and creates are the positions of the plan that
\* drop and create it, present tells whether the destination has the name,
\* unequal whether the two entities differ
RecreatedWhenChanged(drops, creates, present, unequal) ==
    IF ~present
    THEN Cardinality(creates) = 1 /\ drops = {}
    ELSE IF unequal
    THEN /\ Cardinality(drops) = 1
         /\ Cardinality(creates) = 1
         /\ \A i \in drops :
               /\ TaggedRecreated(migration_steps[i])
               /\ \A j \in creates : i < j
    ELSE drops = {} /\ creates = {}

\* C11: for either value of destructive and every index (foreign key) name
\* of the source's version of a table of both sides: when the destination's
\* version lacks the name the plan has exactly one CREATE_INDEXES
\* (CREATE_FOREIGN_KEYS) step and no drop step for it; when it has the name
\* with another definition (for an index, another column order is
\* another definition) the plan has exactly one drop step, whose
\* description ends with (will be recreated), and exactly one create step,
\* the drop before the create; when it has the name with the same definition
\* the plan has no step for it.
C11_KeysRecreated ==
    calls > 0 =>
        \A t \in CommonTables :
            LET src == source.tables[t]
                dst == destination.tables[t]
            IN  /\ \A n \in NamesOf(src.indexes) :
                      RecreatedWhenChanged(
                          StepsWith(DROP_INDEXES, DropIndexSql(t, n)),
                          IndexCreations(t, n),
                          n \in NamesOf(dst.indexes),
                          n \in NamesOf(dst.indexes)
                            /\ LET s == Named(src.indexes, n)
                                   d == Named(dst.indexes, n)
                               IN  \/ s.columns # d.columns
                                   \/ s.is_unique # d.is_unique
                                   \/ s.index_type # d.index_type)
                /\ \A n \in NamesOf(src.foreign_keys) :
                      RecreatedWhenChanged(
                          StepsWith(DROP_FOREIGN_KEYS, DropForeignKeySql(t, n)),
                          StepsStarting(CREATE_FOREIGN_KEYS, AddConstraint(t, n)),
                          n \in NamesOf(dst.foreign_keys),
                          n \in NamesOf(dst.foreign_keys)
                            /\ LET s == Named(src.foreign_keys, n)
                                   d == Named(dst.foreign_keys, n)
                               IN  \/ s.columns # d.columns
                                   \/ s.referenced_table # d.referenced_table
                                   \/ s.referenced_columns # d.referenced_columns
                                   \/ s.on_delete # d.on_delete
                                   \/ s.on_update # d.on_update)

\* a non-destructive plan over a table whose index a has on the two sides
\* the same two columns in another order, dropped and created again, and
\* whose index b only the source has, created and not dropped
C11_Witness ==
    /\ calls > 0
    /\ ~destructive
    /\ LET src == source.tables["a"]
           dst == destination.tables["a"]
       IN  /\ NamesOf(src.indexes) = {"a", "b"}
           /\ NamesOf(dst.indexes) = {"a"}
           /\ Named(src.indexes, "a").columns = <<"a", "b">>
           /\ Named(dst.indexes, "a").columns = <<"b", "a">>
           /\ Named(src.indexes, "a").is_unique = Named(dst.indexes, "a").is_unique
           /\ Named(src.indexes, "a").index_type = Named(dst.indexes, "a").index_type
    /\ Cardinality(StepsOfStage(DROP_INDEXES)) = 1
    /\ Cardinality(StepsOfStage(CREATE_INDEXES)) = 2

\* the steps of the plan of a view stage that name view v
ViewSteps(v) ==
    {i \in StepsOfStage(DROP_VIEWS) \cup StepsOfStage(CREATE_VIEWS) :
        migration_steps[i].sql[3] = v}

\* C12: when views are included, every view of the source has exactly one
\* step of a view stage, a CREATE_VIEWS step that is CREATE OR REPLACE VIEW
\* with the source's definition, whatever the destination holds under that
\* name; a view of the destination alone has exactly one step, a DROP_VIEWS
\* step, when destructive, and no step when not.
C12_Views ==
    (calls > 0 /\ include.views) =>
        /\ \A v \in DOMAIN source.views :
              /\ Cardinality(ViewSteps(v)) = 1
              /\ ViewSteps(v)
                   = StepsWith(CREATE_VIEWS,
                               CreateView(v) \o <<" AS ", source.views[v].definition, ";">>)
        /\ \A v \in DOMAIN destination.views \ DOMAIN source.views :
              IF destructive
              THEN /\ Cardinality(ViewSteps(v)) = 1
                   /\ ViewSteps(v) = StepsWith(DROP_VIEWS, DropViewSql(v))
              ELSE ViewSteps(v) = {}

\* a destructive plan over a view a that the two sides define differently
\* and a view b of the destination alone: one create and one drop
C12_Witness ==
    /\ calls > 0
    /\ include.views
    /\ destructive
    /\ DOMAIN source.views = {"a"}
    /\ DOMAIN destination.views = {"a", "b"}
    /\ source.views["a"].definition # destination.views["a"].definition
    /\ Cardinality(StepsOfStage(CREATE_VIEWS)) = 1
    /\ Cardinality(StepsOfStage(DROP_VIEWS)) = 1

\* the steps of the plan whose SQL text drops routine p, as either type
ProcedureDrops(p) ==
    {i \in DOMAIN migration_steps :
        \E type \in {PROCEDURE, FUNCTION} :
            migration_steps[i].sql = DropProcedureSql(type, p)}

\* C13: when procedures are included, every routine of the source has in
\* the plan exactly one step that is its definition followed by a
\* semicolon; when the destination has a routine of that name the plan also
\* has exactly one DROP <type> IF EXISTS step for it, of the source's type
\* and of stage CREATE_PROCEDURES, and the step right after that drop is the
\* routine's create step; when the destination has none the plan has no
\* drop step for it.
C13_Procedures ==
    (calls > 0 /\ include.procedures) =>
        \A p \in DOMAIN source.procedures :
            LET proc == source.procedures[p]
                creates == StepsWith(CREATE_PROCEDURES, <<proc.definition, ";">>)
            IN  /\ Cardinality(creates) = 1
                /\ IF p \in DOMAIN destination.procedures
                   THEN /\ Cardinality(ProcedureDrops(p)) = 1
                        /\ ProcedureDrops(p)
                             = StepsWith(CREATE_PROCEDURES,
                                         DropProcedureSql(proc.type, p))
                        /\ \A i \in ProcedureDrops(p) : i + 1 \in creates
                   ELSE ProcedureDrops(p) = {}

\* a plan over two routines that both sides have, routine a a function in
\* the source and a procedure in the destination, with a view and a trigger
\* planned around them: two drops, each right before its create
C13_Witness ==
    /\ calls > 0
    /\ include = DefaultFlags
    /\ DOMAIN source.procedures = {"a", "b"}
    /\ DOMAIN destination.procedures = {"a", "b"}
    /\ source.procedures["a"].type = FUNCTION
    /\ destination.procedures["a"].type = PROCEDURE
    /\ Cardinality(StepsOfStage(CREATE_PROCEDURES)) = 4
    /\ StepsOfStage(CREATE_VIEWS) # {}
    /\ StepsOfStage(CREATE_TRIGGERS) # {}

\* the DROP_TRIGGERS steps of the plan for trigger g
TriggerDrops(g) == StepsWith(DROP_TRIGGERS, DropTriggerSql(g))

\* the CREATE_TRIGGERS steps of the plan for trigger g
TriggerCreations(g) == StepsStarting(CREATE_TRIGGERS, CreateTrigger(g))

\* C14: when triggers are included, every trigger of the source has exactly
\* one CREATE_TRIGGERS step; when the destination has a trigger of that name
\* the plan also has exactly one DROP_TRIGGERS step for it, described as
\* (will be recreated) and placed before the create step, and otherwise it
\* has no drop step for it; a trigger of the destination alone has no create
\* step and, only when destructive, one DROP_TRIGGERS step without the tag;
\* so no trigger name has two DROP_TRIGGERS steps.
C14_Triggers ==
    (calls > 0 /\ include.triggers) =>
        /\ \A g \in DOMAIN source.triggers :
              /\ Cardinality(TriggerCreations(g)) = 1
              /\ IF g \in DOMAIN destination.triggers
                 THEN /\ Cardinality(TriggerDrops(g)) = 1
                      /\ \A i \in TriggerDrops(g) :
                            /\ TaggedRecreated(migration_steps[i])
                            /\ \A j \in TriggerCreations(g) : i < j
                 ELSE TriggerDrops(g) = {}
        /\ \A g \in DOMAIN destination.triggers \ DOMAIN source.triggers :
              /\ TriggerCreations(g) = {}
              /\ IF destructive
                 THEN /\ Cardinality(TriggerDrops(g)) = 1
                      /\ \A i \in TriggerDrops(g) :
                            migration_steps[i].description
                              = <<"Drop trigger '", g, "'">>
                 ELSE TriggerDrops(g) = {}
        /\ \A g \in Names : Cardinality(TriggerDrops(g)) <= 1

\* a destructive plan over a trigger a of both sides, defined differently,
\* and a trigger b of the destination alone: two drops and one create
C14_Witness ==
    /\ calls > 0
    /\ include.triggers
    /\ destructive
    /\ DOMAIN source.triggers = {"a"}
    /\ DOMAIN destination.triggers = {"a", "b"}
    /\ source.triggers["a"] # destination.triggers["a"]
    /\ Cardinality(StepsOfStage(DROP_TRIGGERS)) = 2
    /\ Cardinality(StepsOfStage(CREATE_TRIGGERS)) = 1

\* the steps of the plan that are statements on table t itself
TableSteps(t) ==
    {i \in DOMAIN migration_steps :
        /\ migration_steps[i].sql[1]
             \in {"DROP TABLE IF EXISTS ", "CREATE TABLE ", "ALTER TABLE "}
        /\ migration_steps[i].sql[3] = t}

\* C15: when tables are included, a table of the destination alone has,
\* when destructive, exactly one step, a DROP_TABLES step with exactly one
\* warning, of level WARNING, and no step when not destructive; a table of
\* the source alone has exactly one step, a CREATE_TABLES step (so no ALTER
\* TABLE step of any stage); and every ALTER TABLE step of the plan is for a
\* table of both sides.
C15_Tables ==
    (calls > 0 /\ include.tables) =>
        /\ \A t \in DOMAIN destination.tables \ DOMAIN source.tables :
              IF destructive
              THEN /\ Cardinality(TableSteps(t)) = 1
                   /\ TableSteps(t) = StepsWith(DROP_TABLES, DropTableSql(t))
                   /\ \A i \in TableSteps(t) :
                         /\ Len(migration_steps[i].warnings) = 1
                         /\ migration_steps[i].warnings[1].level = WARNING
              ELSE TableSteps(t) = {}
        /\ \A t \in DOMAIN source.tables \ DOMAIN destination.tables :
              /\ Cardinality(TableSteps(t)) = 1
              /\ TableSteps(t) = StepsStarting(CREATE_TABLES, CreateTable(t))
        /\ \A i \in DOMAIN migration_steps :
              migration_steps[i].sql[1] = "ALTER TABLE " =>
                  migration_steps[i].sql[3] \in CommonTables

\* a destructive plan over a source with table a alone, which has two
\* columns, two indexes and two foreign keys, and a destination with table
\* b alone: one drop with its warning and one create
C15_Witness ==
    /\ calls > 0
    /\ include.tables
    /\ destructive
    /\ DOMAIN source.tables = {"a"}
    /\ DOMAIN destination.tables = {"b"}
    /\ Len(source.tables["a"].foreign_keys) = 2
    /\ Cardinality(StepsOfStage(DROP_TABLES)) = 1
    /\ Cardinality(StepsOfStage(CREATE_TABLES)) = 1
    /\ \A i \in StepsOfStage(DROP_TABLES) : Len(migration_steps[i].warnings) = 1

\* C16: when the destination's version of a table of both sides has a column
\* x that the source's lacks, and the source's has a column y that the
\* destination's lacks, the destructive plan has exactly one DROP_COLUMNS
\* step for x, carrying the warning that its data will be deleted, and
\* exactly one ADD_COLUMNS step for y, the drop before the add; the
\* non-destructive plan has the ADD_COLUMNS step for y and no step for x.
C16_RenamedColumn ==
    calls > 0 =>
        \A t \in CommonTables :
            LET src == NamesOf(source.tables[t].columns)
                dst == NamesOf(destination.tables[t].columns)
            IN  \A x \in dst \ src, y \in src \ dst :
                    LET drops == StepsWith(DROP_COLUMNS, DropColumnSql(t, x))
                        adds == StepsStarting(ADD_COLUMNS, AddColumn(t, y))
                    IN  /\ Cardinality(adds) = 1
                        /\ StepsStarting(MODIFY_COLUMNS, ModifyColumn(t, x)) = {}
                        /\ StepsStarting(ADD_COLUMNS, AddColumn(t, x)) = {}
                        /\ IF destructive
                           THEN /\ Cardinality(drops) = 1
                                /\ \A i \in drops :
                                      /\ \A j \in adds : i < j
                                      /\ Len(migration_steps[i].warnings) = 1
                                      /\ migration_steps[i].warnings[1].level = WARNING
                                      /\ migration_steps[i].warnings[1].message
                                           = <<"Dropping column '", x,
                                               "' will delete all its data.">>
                           ELSE StepsOfStage(DROP_COLUMNS) = {}

\* a destructive plan over a table whose one column is a in the destination
\* and b in the source: a is dropped, then b is added
C16_Witness ==
    /\ calls > 0
    /\ destructive
    /\ NamesOf(destination.tables["a"].columns) = {"a"}
    /\ NamesOf(source.tables["a"].columns) = {"b"}
    /\ Len(migration_steps) = 2
    /\ migration_steps[1].stage = DROP_COLUMNS
    /\ migration_steps[2].stage = ADD_COLUMNS

\* the Validator warns about column c of the table
ValidatorWarnsAbout(table, c) ==
    \E w \in Range(validate_table(table)) :
        /\ w.level = WARNING
        /\ w.message[1] = "Column '"
        /\ w.message[2] = c

\* C20: every column that only the source's version of a table of both
\* sides has gets exactly one ADD_COLUMNS step; that step carries one
\* warning, of level WARNING, when the column disallows NULL, has no default
\* and its extra does not contain auto_increment in any letter case, which
\* is when the Validator warns about that column of the source table;
\* otherwise the step has no warning.
C20_AddedColumnWarning ==
    calls > 0 =>
        \A t \in CommonTables :
            LET src == source.tables[t]
                dst == destination.tables[t]
            IN  \A c \in NamesOf(src.columns) \ NamesOf(dst.columns) :
                    LET column == Named(src.columns, c)
                        adds == StepsStarting(ADD_COLUMNS, AddColumn(t, c))
                        warned == /\ ~column.is_nullable
                                  /\ column.default = None
                                  /\ ~Contains(Lower(column.extra), auto_increment)
                    IN  /\ Cardinality(adds) = 1
                        /\ warned <=> ValidatorWarnsAbout(src, c)
                        /\ \A i \in adds :
                              IF warned
                              THEN /\ Len(migration_steps[i].warnings) = 1
                                   /\ migration_steps[i].warnings[1].level = WARNING
                              ELSE migration_steps[i].warnings = <<>>

\* a plan that adds a column without a warning because its extra holds
\* AUTO_INCREMENT in upper case, the column disallowing NULL and having no
\* default
C20_Witness ==
    /\ calls > 0
    /\ NamesOf(destination.tables["a"].columns) = {"a"}
    /\ NamesOf(source.tables["a"].columns) = {"a", "b"}
    /\ LET column == Named(source.tables["a"].columns, "b")
       IN  /\ ~column.is_nullable
           /\ column.default = None
           /\ column.extra = Upper(auto_increment)
    /\ Cardinality(StepsOfStage(ADD_COLUMNS)) = 1
    /\ \A i \in StepsOfStage(ADD_COLUMNS) : migration_steps[i].warnings = <<>>

\* the warnings of a step whose message ends as given
WarningsEnding(step, ending) ==
    {k \in DOMAIN step.warnings :
        /\ step.warnings[k].level = WARNING
        /\ step.warnings[k].message[Len(step.warnings[k].message)] = ending}

DataLossWarnings(step) == WarningsEnding(step, " may cause data loss.")

\* C17: the MODIFY COLUMN step of a column carries the data-loss warning,
\* once, exactly when is_lossy_column_change(old = destination column,
\* new = source column) is true, and names the destination type before the
\* source type; a destination VARCHAR(100) NOT NULL with a source
\* VARCHAR(50) NOT NULL gives one step with exactly one warning, and the
\* reverse change gives one step with no warning.
C17_DataLossWarning ==
    calls > 0 =>
        \A t \in CommonTables :
            LET src == source.tables[t]
                dst == destination.tables[t]
            IN  \A c \in NamesOf(src.columns) \cap NamesOf(dst.columns) :
                    LET s == Named(src.columns, c)
                        d == Named(dst.columns, c)
                        steps == StepsStarting(MODIFY_COLUMNS, ModifyColumn(t, c))
                        shrink == /\ Upper(d.data_type) = VARCHAR_100
                                  /\ Upper(s.data_type) = VARCHAR_50
                        grow == /\ Upper(d.data_type) = VARCHAR_50
                                /\ Upper(s.data_type) = VARCHAR_100
                    IN  /\ \A i \in steps :
                              LET lost == DataLossWarnings(migration_steps[i])
                              IN  /\ Cardinality(lost)
                                       = (IF is_lossy_column_change(d, s) THEN 1 ELSE 0)
                                  /\ shrink => lost # {}
                                  /\ grow => lost = {}
                                  /\ \A k \in lost :
                                        migration_steps[i].warnings[k].message
                                          = <<"Changing column '", c, "' from ">>
                                            \o d.data_type \o <<" to ">> \o s.data_type
                                            \o <<" may cause data loss.">>
                        /\ (shrink \/ grow) /\ ~d.is_nullable /\ ~s.is_nullable =>
                              /\ Cardinality(steps) = 1
                              /\ \A i \in steps :
                                    Len(migration_steps[i].warnings)
                                      = (IF shrink THEN 1 ELSE 0)

\* a plan that narrows column a from the destination's VARCHAR(100) NOT NULL
\* to the source's VARCHAR(50) NOT NULL in one step with one warning
C17_Witness ==
    /\ calls > 0
    /\ LET s == Named(source.tables["a"].columns, "a")
           d == Named(destination.tables["a"].columns, "a")
       IN  /\ d.data_type = VARCHAR_100 /\ ~d.is_nullable
           /\ s.data_type = VARCHAR_50 /\ ~s.is_nullable
    /\ Cardinality(StepsStarting(MODIFY_COLUMNS, ModifyColumn("a", "a"))) = 1
    /\ \A i \in StepsStarting(MODIFY_COLUMNS, ModifyColumn("a", "a")) :
          /\ Len(migration_steps[i].warnings) = 1
          /\ DataLossWarnings(migration_steps[i]) = {1}

NotNullWarnings(step) == WarningsEnding(step, "will fail if NULL values exist.")

\* C19: the MODIFY COLUMN step of a column carries the warning that a
\* change from NULL to NOT NULL will fail if NULL values exist, once,
\* exactly when the destination column is nullable and the source column
\* is not, whether or not the step has the data-loss warning; a step with
\* both has two warnings, the data-loss warning first.
C19_NotNullWarning ==
    calls > 0 =>
        \A t \in CommonTables :
            LET src == source.tables[t]
                dst == destination.tables[t]
            IN  \A c \in NamesOf(src.columns) \cap NamesOf(dst.columns) :
                    LET s == Named(src.columns, c)
                        d == Named(dst.columns, c)
                    IN  \A i \in StepsStarting(MODIFY_COLUMNS, ModifyColumn(t, c)) :
                            LET step == migration_steps[i]
                                tightened == NotNullWarnings(step)
                                lost == DataLossWarnings(step)
                            IN  /\ Cardinality(tightened)
                                     = (IF d.is_nullable /\ ~s.is_nullable
                                        THEN 1 ELSE 0)
                                /\ \A k \in tightened :
                                      step.warnings[k].message
                                        = <<"Changing column '", c,
                                            "' from NULL to NOT NULL ",
                                            "will fail if NULL values exist.">>
                                /\ Len(step.warnings)
                                     = Cardinality(tightened) + Cardinality(lost)
                                /\ tightened # {} /\ lost # {} =>
                                      /\ Len(step.warnings) = 2
                                      /\ lost = {1}
                                      /\ tightened = {2}

\* a plan that narrows the nullable VARCHAR(100) column a of the
\* destination to the source's VARCHAR(50) NOT NULL in one step with both
\* warnings
C19_Witness ==
    /\ calls > 0
    /\ LET s == Named(source.tables["a"].columns, "a")
           d == Named(destination.tables["a"].columns, "a")
       IN  /\ d.data_type = VARCHAR_100 /\ d.is_nullable
           /\ s.data_type = VARCHAR_50 /\ ~s.is_nullable
    /\ Cardinality(StepsStarting(MODIFY_COLUMNS, ModifyColumn("a", "a"))) = 1
    /\ \A i \in StepsStarting(MODIFY_COLUMNS, ModifyColumn("a", "a")) :
          /\ Len(migration_steps[i].warnings) = 2
          /\ DataLossWarnings(migration_steps[i]) = {1}
          /\ NotNullWarnings(migration_steps[i]) = {2}

\* the (VAR)CHAR(n) types of the pool with their n, and the DECIMAL(p,s)
\* types with their p
CharLengths ==
    { <<VARCHAR_50, 50>>, <<VARCHAR_100, 100>>, <<Lower(VARCHAR_50), 50>>,
      <<Lower(VARCHAR_100), 100>>, <<CHAR_5, 5>>, <<CHAR_10, 10>> }

DecimalPrecisions ==
    { <<DECIMAL_8_2, 8>>, <<DECIMAL_8_4, 8>>, <<DECIMAL_10_2, 10>>,
      <<Lower(DECIMAL_10_2), 10>> }

\* the call was from the one type to the other and returned the result
Returned(old_type, new_type, result) ==
    /\ lossy_call[1].data_type = old_type
    /\ lossy_call[2].data_type = new_type
    => lossy_call[3] = result

\* C18: is_lossy_column_change(old, new) returns true when both types are
\* (VAR)CHAR(n) and the new n is smaller, and when both are DECIMAL(p,s) and
\* the new p is smaller; it returns false when a (VAR)CHAR(n) grows and for
\* INT to BIGINT; VARCHAR(100) to VARCHAR(50), DECIMAL(10,2) to DECIMAL(8,2)
\* and BIGINT to INT are lossy, VARCHAR(50) to VARCHAR(100) and INT to
\* BIGINT are not.
C18_LossyChange ==
    Len(lossy_call) = 3 =>
        /\ \A o \in CharLengths, n \in CharLengths :
              /\ n[2] < o[2] => Returned(o[1], n[1], TRUE)
              /\ n[2] > o[2] => Returned(o[1], n[1], FALSE)
        /\ \A o \in DecimalPrecisions, n \in DecimalPrecisions :
              n[2] < o[2] => Returned(o[1], n[1], TRUE)
        /\ Returned(VARCHAR_100, VARCHAR_50, TRUE)
        /\ Returned(DECIMAL_10_2, DECIMAL_8_2, TRUE)
        /\ Returned(BIGINT, INT, TRUE)
        /\ Returned(VARCHAR_50, VARCHAR_100, FALSE)
        /\ Returned(INT, BIGINT, FALSE)
        /\ Returned(Lower(INT), Lower(BIGINT), FALSE)
        /\ Returned(INT_11, BIGINT_20, FALSE)

\* the call from DECIMAL(10,2) to DECIMAL(8,4) has returned true
C18_Witness ==
    /\ Len(lossy_call) = 3
    /\ lossy_call[1].data_type = DECIMAL_10_2
    /\ lossy_call[2].data_type = DECIMAL_8_4
    /\ lossy_call[3] = TRUE

\* the positions of the warnings of the given level
WarningsOfLevel(ws, level) == {k \in DOMAIN ws : ws[k].level = level}

\* C21: validating a table returns one WARNING-level warning for each
\* column that disallows NULL, has no default and is not auto_increment,
\* one INFO-level warning exactly when the primary key is empty, one
\* ERROR-level warning for each foreign key whose local and referenced
\* column counts differ, and nothing else; each rule applies whatever the
\* others find, and the table is the same after the call.
C21_ValidateTable ==
    /\ [](Len(validate_call) = 2 =>
            LET table == validate_call[1]
                ws == validate_call[2]
                unset == {i \in DOMAIN table.columns :
                            /\ ~table.columns[i].is_nullable
                            /\ table.columns[i].default = None
                            /\ ~Contains(Lower(table.columns[i].extra), auto_increment)}
                uneven == {i \in DOMAIN table.foreign_keys :
                            Len(table.foreign_keys[i].columns)
                              # Len(table.foreign_keys[i].referenced_columns)}
            IN  /\ Cardinality(WarningsOfLevel(ws, WARNING)) = Cardinality(unset)
                /\ \A i \in unset :
                      \E k \in WarningsOfLevel(ws, WARNING) :
                          ws[k].message[2] = table.columns[i].name
                /\ Cardinality(WarningsOfLevel(ws, INFO))
                     = (IF table.primary_key = <<>> THEN 1 ELSE 0)
                /\ Cardinality(WarningsOfLevel(ws, ERROR)) = Cardinality(uneven)
                /\ \A i \in uneven :
                      \E k \in WarningsOfLevel(ws, ERROR) :
                          ws[k].message[2] = table.foreign_keys[i].name
                /\ Len(ws) = Cardinality(unset) + Cardinality(uneven)
                               + (IF table.primary_key = <<>> THEN 1 ELSE 0))
    /\ [][validate_call # <<>> => validate_call'[1] = validate_call[1]]_vars

\* a validated table with a column that disallows NULL without a default,
\* no primary key and a foreign key of two columns referencing one: three
\* warnings, one of each level
C21_Witness ==
    /\ Len(validate_call) = 2
    /\ \E i \in DOMAIN validate_call[1].columns :
          NotNullWithoutDefault(validate_call[1].columns[i])
    /\ validate_call[1].primary_key = <<>>
    /\ Len(validate_call[1].foreign_keys) = 1
    /\ Len(validate_call[1].foreign_keys[1].columns) = 2
    /\ Len(validate_call[1].foreign_keys[1].referenced_columns) = 1
    /\ Len(validate_call[2]) = 3
    /\ validate_call[2][1].level = WARNING
    /\ validate_call[2][2].level = INFO
    /\ validate_call[2][3].level = ERROR

\* the foreign keys of a table whose local and referenced column counts
\* differ
UnevenForeignKeys(table) ==
    {i \in DOMAIN table.foreign_keys :
        Len(table.foreign_keys[i].columns)
          # Len(table.foreign_keys[i].referenced_columns)}

\* every uneven foreign key of every table of the source alone is named by
\* a warning of the given level on the one CREATE TABLE step of its table
UnevenSurfacedAt(level) ==
    calls > 0 =>
        \A t \in DOMAIN source.tables \ DOMAIN destination.tables :
            LET table == source.tables[t]
                created == StepsStarting(CREATE_TABLES, CreateTable(t))
            IN  /\ Cardinality(created) = 1
                /\ \A f \in UnevenForeignKeys(table), i \in created :
                      \E k \in WarningsOfLevel(migration_steps[i].warnings, level) :
                          migration_steps[i].warnings[k].message
                            = <<"Foreign key '", table.foreign_keys[f].name,
                                "' has mismatched column counts.">>

\* C22 as stated: a foreign key with differing column counts does not stop
\* the plan, and is surfaced as a WARNING-level finding on the CREATE TABLE
\* step of the new table that has it.
C22_SurfacedAsWarning == UnevenSurfacedAt(WARNING)

\* C22 as amended: a foreign key with differing column counts does not stop
\* the plan, and is surfaced as an ERROR-level finding of the Validator on
\* the CREATE TABLE step of the new table that has it.
C22_SurfacedAsError == UnevenSurfacedAt(ERROR)

\* a plan that creates table a, whose foreign key a has two local columns
\* and one referenced column, with an ERROR-level warning on the step
C22_Witness ==
    /\ calls > 0
    /\ "a" \notin DOMAIN destination.tables
    /\ UnevenForeignKeys(source.tables["a"]) = {1}
    /\ Len(source.tables["a"].foreign_keys[1].columns) = 2
    /\ \E i \in StepsStarting(CREATE_TABLES, CreateTable("a")) :
          WarningsOfLevel(migration_steps[i].warnings, ERROR) # {}

\* C23: the CREATE TABLE step of a table of the source alone carries
\* exactly the warnings the Validator returns for that table, in the
\* Validator's order; the foreign keys of a table of both sides are not
\* validated, so every ADD CONSTRAINT step on such a table has no warning,
\* an added foreign key with differing column counts included.
C23_CreatedTableValidated ==
    calls > 0 =>
        /\ \A t \in DOMAIN source.tables \ DOMAIN destination.tables :
              /\ StepsStarting(CREATE_TABLES, CreateTable(t)) # {}
              /\ \A i \in StepsStarting(CREATE_TABLES, CreateTable(t)) :
                    migration_steps[i].warnings = validate_table(source.tables[t])
        /\ \A t \in CommonTables :
              \A f \in DOMAIN source.tables[t].foreign_keys :
                  LET added == StepsStarting(CREATE_FOREIGN_KEYS,
                                   AddConstraint(t, source.tables[t].foreign_keys[f].name))
                  IN  /\ destination.tables[t].foreign_keys = <<>> => added # {}
                      /\ \A i \in added : migration_steps[i].warnings = <<>>

\* a plan that adds foreign key a, of two local columns and one referenced
\* column, to table a of both sides, the step having no warning
C23_Witness ==
    /\ calls > 0
    /\ "a" \in CommonTables
    /\ UnevenForeignKeys(source.tables["a"]) = {1}
    /\ source.tables["a"].foreign_keys[1].name = "a"
    /\ Cardinality(StepsStarting(CREATE_FOREIGN_KEYS, AddConstraint("a", "a"))) = 1
    /\ \A i \in StepsStarting(CREATE_FOREIGN_KEYS, AddConstraint("a", "a")) :
          migration_steps[i].warnings = <<>>

\* the table-option steps of the plan for table t
TableOptionSteps(t) ==
    {i \in StepsOfStage(MODIFY_COLUMNS) :
        /\ migration_steps[i].description[1] = "Update table options for '"
        /\ migration_steps[i].description[2] = t}

\* C24: for a table of both sides, the plan has exactly one table-option
\* ALTER step, of stage MODIFY_COLUMNS, when the two versions differ in
\* engine, charset, collation or comment, however many of them differ, and
\* none when all four are equal.
C24_TableOptions ==
    calls > 0 =>
        \A t \in CommonTables :
            LET s == source.tables[t]
                d == destination.tables[t]
            IN  Cardinality(TableOptionSteps(t))
                  = (IF \/ s.engine # d.engine
                        \/ s.charset # d.charset
                        \/ s.collation # d.collation
                        \/ s.comment # d.comment
                     THEN 1 ELSE 0)

\* C25: after generate_migration_plan returns, SchemaComparator.warnings is
\* the concatenation, in plan order, of the warnings attached to the
\* returned steps, and so is not empty when a returned step has a warning.
C25_FlatWarnings ==
    calls > 0 =>
        /\ warnings = Flatten([i \in DOMAIN migration_steps |->
                                   migration_steps[i].warnings])
        /\ (\E i \in DOMAIN migration_steps : migration_steps[i].warnings # <<>>)
              => warnings # <<>>

\* C26: generate_migration_plan leaves both input schemas as they were:
\* every table, column, index, foreign key, view, procedure and trigger of
\* the source and of the destination has the same field values, and every
\* container the same contents in the same order, after the call as before.
C26_InputsUnchanged ==
    [][calls' = calls + 1 => /\ source' = source
                             /\ destination' = destination]_vars

\* a call has returned a plan with steps for a table of both sides whose
\* columns, indexes and foreign keys differ, and with steps for a view and a
\* trigger
C26_Witness ==
    /\ calls > 0
    /\ "a" \in CommonTables
    /\ source.tables["a"] # destination.tables["a"]
    /\ StepsOfStage(MODIFY_COLUMNS) # {}
    /\ StepsOfStage(CREATE_INDEXES) # {}
    /\ StepsOfStage(CREATE_FOREIGN_KEYS) # {}
    /\ StepsOfStage(CREATE_VIEWS) # {}
    /\ StepsOfStage(CREATE_TRIGGERS) # {}

\* C27: calls of generate_migration_plan on one SchemaComparator with the
\* same include_* flags return plans with the same steps each time, the
\* steps of an earlier call not being kept, and a call leaves the lists
\* returned by the calls before it as they were.
C27_RepeatedCalls ==
    /\ [](\A i \in DOMAIN returned : returned[i] = returned[1])
    /\ [][calls' = calls + 1 =>
            /\ calls > 0 => migration_steps' = migration_steps
            /\ Len(returned') = Len(returned) + 1
            /\ \A i \in DOMAIN returned : returned'[i] = returned[i]]_vars

\* the second call has returned: two lists are held, both with steps
C27_Witness ==
    /\ calls = 2
    /\ Len(returned) = 2
    /\ returned[1] # <<>>
    /\ returned[2] = migration_steps

\* the integer types, from the narrowest to the widest
IntegerFamily == <<T_TINYINT, T_SMALLINT, T_MEDIUMINT, T_INT, T_BIGINT>>

\* C29: between two types of TINYINT, SMALLINT, MEDIUMINT, INT and BIGINT,
\* is_lossy_column_change returns true only when the new type is strictly
\* narrower than the old one, never for a widening; and for a type outside
\* the listed families (POINT, TINYTEXT) it returns false.
C29_FamilyDirectional ==
    Len(lossy_call) = 3 =>
        /\ \A o \in DOMAIN IntegerFamily, n \in DOMAIN IntegerFamily :
              /\ lossy_call[1].data_type = IntegerFamily[o]
              /\ lossy_call[2].data_type = IntegerFamily[n]
              /\ lossy_call[3]
              => n < o
        /\ \/ lossy_call[1].data_type \in {POINT, TINYTEXT}
           \/ lossy_call[2].data_type \in {POINT, TINYTEXT}
           => ~lossy_call[3]

\* the positions in events of the calls of one kind
Calls(kind) == {j \in DOMAIN events : events[j][1] = kind}

\* the positions in events of the calls of one kind that raised MySQLError
Raised(kind) ==
    {j \in Calls(kind) : j < Len(events) /\ events[j + 1][1] = "MySQLError"}

\* The execution loop. Steps are executed in plan order, one at a time.
\* When a step raises a database error no later step is executed, and once
\* the command has ended rollback has been called once, commit never, the
\* status is 1 and the cursor has been closed. When the loop has run without
\* a failing step (and, if commit_matters, the commit has not raised either)
\* and the command has ended, every step was executed, commit was called
\* once, after the last step, rollback never, and the cursor was closed.
ExecutionLoop(commit_matters) ==
    /\ Len(Executed) <= Len(migration_steps)
    /\ \A k \in DOMAIN Executed : Executed[k][2] = migration_steps[k].sql
    /\ \A j \in Raised("execute") :
          /\ \A later \in Calls("execute") : later <= j
          /\ Calls("commit") = {}
          /\ pc = "done" =>
                /\ Cardinality(Calls("rollback")) = 1
                /\ Cardinality(Calls("close")) = 1
                /\ \A r \in Calls("rollback"), c \in Calls("close") : j < r /\ r < c
                /\ exit_status = <<1>>
    /\ /\ pc = "done"
       /\ Calls("cursor") # {}
       /\ Raised("execute") = {}
       /\ commit_matters => Raised("commit") = {}
       => /\ Len(Executed) = Len(migration_steps)
          /\ Cardinality(Calls("commit")) = 1
          /\ \A c \in Calls("commit"), e \in Calls("execute") : e < c
          /\ Calls("rollback") = {}
          /\ Cardinality(Calls("close")) = 1
          /\ \A c \in Calls("commit"), d \in Calls("close") : c < d
    /\ /\ pc = "done"
       /\ Raised("commit") # {}
       /\ commit_matters
       => /\ Cardinality(Calls("commit")) = 1
          /\ Cardinality(Calls("rollback")) = 1
          /\ Cardinality(Calls("close")) = 1
          /\ exit_status = <<1>>

\* C28 as stated: with --execute the steps are executed in plan order, one
\* at a time; if step k raises a database error no step after k is executed,
\* rollback is called, commit is not, and the process exits with status 1;
\* if no step fails, commit is called exactly once, after the last step, and
\* rollback is never called; the cursor is closed in both cases.
C28_ExecutionLoop == ExecutionLoop(FALSE)

\* C28 as amended: as stated, but rollback is never called only if no step
\* fails and the commit itself does not raise a database error; if the
\* commit raises one, commit has been called once, rollback is called, the
\* cursor is closed and the process exits with status 1.
C28_ExecutionLoopCommitted == ExecutionLoop(TRUE)

\* the command has ended after the first step of a plan of two raised a
\* database error: one step executed, rolled back, status 1
C28_Witness ==
    /\ pc = "done"
    /\ Len(migration_steps) = 2
    /\ Len(Executed) = 1
    /\ Raised("execute") # {}
    /\ Calls("rollback") # {}
    /\ Calls("commit") = {}
    /\ exit_status = <<1>>

\* C30: when the plan is not empty, a step carries a warning of any level,
\* INFO included, and --force is not given, the command exits with status 1
\* before writing the --plan script and before executing any step; with
\* --force, or when no step has a warning, the script, if asked for, is
\* written once and before the connection for execution is made; when the
\* plan is empty the command returns without writing or connecting.
C30_WarningGate ==
    LET analyzed == calls > 0
        gated == pc \notin {"analyze", "warnings"}
        warned == all_warnings(migration_steps) # <<>>
    IN  /\ analyzed /\ migration_steps = <<>> =>
              /\ pc = "done"
              /\ exit_status = <<0>>
              /\ events = <<>>
        /\ analyzed /\ gated /\ migration_steps # <<>> /\ warned /\ ~args.force =>
              /\ pc = "done"
              /\ exit_status = <<1>>
              /\ events = <<>>
        /\ analyzed /\ gated /\ migration_steps # <<>> /\ (args.force \/ ~warned) =>
              /\ pc # "plan" => Cardinality(Calls("script")) = (IF args.plan THEN 1 ELSE 0)
              /\ \A s \in Calls("script") :
                    /\ events[s][2] = sql_lines(migration_steps)
                    /\ \A e \in Calls("connect") \cup Calls("execute") : s < e
              /\ pc = "done" /\ args.execute => Calls("connect") # {} \/ exit_status = <<1>>
              /\ ~args.execute => Calls("connect") = {}

\* the command has ended with status 1, nothing written and nothing
\* executed, although --plan and --execute were given: the plan creates a
\* table without a primary key, its one warning being of level INFO
C30_Witness ==
    /\ pc = "done"
    /\ exit_status = <<1>>
    /\ args.plan /\ args.execute /\ ~args.force
    /\ migration_steps # <<>>
    /\ all_warnings(migration_steps) # <<>>
    /\ \A k \in DOMAIN all_warnings(migration_steps) :
          all_warnings(migration_steps)[k].level = INFO
    /\ events = <<>>

====
